---------------------------- MODULE Spec2Model ----------------------------
(***************************************************************************)
(* Turn-taking scheduler (ConversationManager) and call recorder           *)
(* (CallRecording) of the hospital voice bot.                              *)
(*                                                                         *)
(* One call session on one asyncio event loop.  Every action is one        *)
(* uninterrupted run of a callback or of a coroutine between two           *)
(* suspension points (await of a sleep or of a collaborator).              *)
(*                                                                         *)
(* In Spec, SpecLive and SpecAlign time is not measured: a sleep ends when  *)
(* its coroutine is resumed, and voice_recent abstracts the test           *)
(*     time.time() - last_voice_activity < VOICE_ACTIVITY_TIMEOUT.         *)
(* SpecTimed adds the timers, in tenths of a second, to the same actions.  *)
(* Text is a sequence of one-character strings, audio a sequence of bytes. *)
(***************************************************************************)
EXTENDS Integers, Sequences, FiniteSets, TLC

VARIABLES
    handler_pc,          \* position of app.media_stream for this call
    stt_active,          \* STTService._receive_task exists and is not cancelled
    tts_closed,          \* TTSService.client has been closed
    is_bot_speaking,     \* ConversationManager.is_bot_speaking
    pending_agent_text,  \* ConversationManager.pending_agent_text
    response_task,       \* ConversationManager.response_task (0 = None)
    voice_recent,        \* time.time() - last_voice_activity < VOICE_ACTIVITY_TIMEOUT
    start_co,            \* the start() coroutine (greeting), run by the handler
    tasks,               \* every asyncio.Task created for _delayed_response
    llm_conversation,    \* LLMService.conversation
    utterances,          \* CallRecording.utterances
    inbound_audio,       \* CallRecording.inbound_audio
    outbound_segments,   \* CallRecording.outbound_segments
    emit_started_at,     \* per recorded segment: len(inbound_audio) when its
                         \* first chunk was handed to the audio sender
    saved,               \* the files written by CallRecording.save()
    aligned_out,         \* result of the last _build_aligned_outbound call
    api_reachable,       \* the messages API answers during this session
    silent_for,          \* time.time() - last_voice_activity, at most
                         \* VOICE_ACTIVITY_TIMEOUT
    sleep_left,          \* per coroutine: what is left of the sleep it is
                         \* suspended in (negative: overdue)
    task_age,            \* per waiting task: time since asyncio.create_task,
                         \* at most RESPONSE_DELAY
    since_trigger,       \* time since the latest final transcript heard with
                         \* is_bot_speaking false, at most RESPONSE_DELAY
    now,                 \* time.time(), since the recording was constructed
    utter_times,         \* per utterance: Utterance.timestamp
    interims_heard,      \* interim transcripts delivered to on_transcript
    cancel_obs,          \* SpecCancel: how often cancellation of
                         \* response_task was requested, by which caller
                         \* last, the tasks before the first request and
                         \* after it
    active_call,         \* SpecSessions: app.active_call, the one CallState
                         \* of the process (0 = None)
    handlers,            \* SpecSessions: per connection, where its
                         \* media_stream handler stands
    managers,            \* SpecSessions: every ConversationManager created:
                         \* the connection whose start event created it,
                         \* the connections whose frames it was given, the
                         \* connections whose handler called its stop()
    app_state,           \* SpecWait: app.app_state as /call-status reports
                         \* it: last_call_id (0 = None), call_in_progress
    waiter,              \* SpecWait: main.wait_for_call_complete: its
                         \* arguments, its locals and what it returned
    sent_chunks          \* SpecChunks: the chunks audio_sender was called
                         \* with, in the order of the calls

vars == <<handler_pc, stt_active, tts_closed, is_bot_speaking,
          pending_agent_text, response_task, voice_recent, start_co, tasks,
          llm_conversation, utterances, inbound_audio, outbound_segments,
          emit_started_at, saved, aligned_out, api_reachable, silent_for,
          sleep_left, task_age, since_trigger, now, utter_times,
          interims_heard, cancel_obs, active_call,
                   handlers, managers, app_state,
                   waiter, sent_chunks>>

\* the clock and what is read off it
timeVars == <<silent_for, sleep_left, task_age, since_trigger, now,
              utter_times, interims_heard, cancel_obs, active_call,
                   handlers, managers, app_state,
                   waiter, sent_chunks>>

\* what only SpecStamped, SpecInterim and SpecCancel keep
obsVars == <<now, utter_times, interims_heard, cancel_obs, active_call,
                   handlers, managers, app_state,
                   waiter, sent_chunks>>

schedVars == <<handler_pc, stt_active, tts_closed, is_bot_speaking,
               pending_agent_text, response_task, voice_recent, start_co,
               tasks, llm_conversation, utterances, emit_started_at,
               api_reachable>>

-----------------------------------------------------------------------------
(* Program constants *)

CHUNK_SIZE == 160

\* CHUNK_DURATION = 0.02 s, in milliseconds
CHUNK_DURATION == 20

\* 8 kHz, 16-bit, mono: the 8000 * 2 bytes a second of line 182, per
\* millisecond
PcmBytesPerMs == 16

SILENCE_THRESHOLD == 400

SENTENCE_ENDINGS == {".", "?", "!"}

\* the delays, in tenths of a second
RESPONSE_DELAY == 12

VOICE_ACTIVITY_TIMEOUT == 8

\* asyncio.sleep(0.1) of the silence polls, lines 106 and 124
PollInterval == 1

\* asyncio.sleep(0.5), line 117
\* main.py: seconds wait_for_call_complete sleeps between two polls
POLL_INTERVAL == 2
GraceWindow == 5

(* Bounds of the model *)

MaxTranscripts == 2

MaxFrames == 1

\* final transcripts in a session of SpecLive
MaxLiveTranscripts == 1

\* final transcripts in a session of SpecTimed
MaxTimedTranscripts == 2

\* how long after its sleep has ended a coroutine is resumed at the latest
MaxLateness == 0

\* interim transcripts in a session of SpecInterim
MaxInterims == 2

\* tasks in an initial state of SpecCancel
MaxCancelTasks == 2

\* cancellation requests in a run of SpecCancel
MaxCancelCalls == 3

\* final transcripts in a run of SpecStamped
MaxStampedTranscripts == 2

\* clock ticks in a run of SpecStamped
MaxClock == 1

\* samples per track in an initial state of SpecMix
MaxMixSamples == 2

\* two-sample media frames in a run of SpecVoice
MaxVoiceFrames == 2

\* clock ticks in a run of SpecVoice
MaxVoiceClock == 3

\* media_stream connections in a run of SpecSessions
MaxConnections == 2

\* media frames given to one ConversationManager in a run of SpecSessions
MaxSessionFrames == 1

\* the longest payload of SpecPace, in half chunks
MaxPaceUnits == 20

\* utterances in an initial state of SpecTranscript
MaxSavedUtterances == 2

\* SpecWait: the timeout of wait_for_call_complete, in polls, and the calls
\* the server is given
MaxWaitPolls == 3
MaxWaitCalls == 2
\* SpecChunks: the longest payload, in quarters of a chunk
MaxChunkQuarters == 16
MaxAlignLen == 5

-----------------------------------------------------------------------------
(* Helpers on sequences *)

Last(s) == s[Len(s)]

Max2(a, b) == IF a >= b THEN a ELSE b

Min2(a, b) == IF a <= b THEN a ELSE b

RECURSIVE Join(_)
\* " ".join(texts)
Join(texts) ==
    IF texts = <<>> THEN <<>>
    ELSE IF Len(texts) = 1 THEN texts[1]
    ELSE texts[1] \o <<" ">> \o Join(Tail(texts))

RECURSIVE RStrip(_)
\* str.rstrip()
RStrip(text) ==
    IF text # <<>> /\ Last(text) = " "
    THEN RStrip(SubSeq(text, 1, Len(text) - 1))
    ELSE text

\* combined_text.rstrip().endswith(SENTENCE_ENDINGS)
EndsSentence(text) ==
    LET t == RStrip(text) IN t # <<>> /\ Last(t) \in SENTENCE_ENDINGS

\* x & ~1
ClearBit0(x) == x - (x % 2)


-----------------------------------------------------------------------------
(* Audio samples: 16-bit signed little-endian PCM, mu-law on the wire *)

Pow2(n) == IF n = 0 THEN 1 ELSE IF n = 1 THEN 2 ELSE IF n = 2 THEN 4
           ELSE IF n = 3 THEN 8 ELSE IF n = 4 THEN 16 ELSE IF n = 5 THEN 32
           ELSE IF n = 6 THEN 64 ELSE 128

\* one mu-law byte to its linear sample (G.711), as audioop.ulaw2lin decodes it
UlawSample(b) ==
    LET u        == 255 - b
        exponent == (u % 128) \div 16
        mantissa == u % 16
        t        == (mantissa * 8 + 132) * Pow2(exponent)
    IN  IF u >= 128 THEN 132 - t ELSE t - 132

\* a signed 16-bit sample as its two little-endian bytes
SampleBytes(s) ==
    LET w == IF s < 0 THEN s + 65536 ELSE s IN <<w % 256, w \div 256>>

\* the signed 16-bit sample held in bytes lo, hi
SampleOf(lo, hi) ==
    LET w == lo + 256 * hi IN IF w >= 32768 THEN w - 65536 ELSE w

\* audioop.ulaw2lin(mulaw_bytes, 1): one PCM byte for each mu-law byte
Ulaw2Lin_Width1(mulaw_bytes) ==
    [k \in 1..Len(mulaw_bytes) |-> SampleBytes(UlawSample(mulaw_bytes[k]))[2]]

RECURSIVE Ulaw2Lin(_)
\* audioop.ulaw2lin(mulaw_bytes, 2)
Ulaw2Lin(mulaw_bytes) ==
    IF mulaw_bytes = <<>> THEN <<>>
    ELSE SampleBytes(UlawSample(mulaw_bytes[1])) \o Ulaw2Lin(Tail(mulaw_bytes))

\* the samples of an even-length PCM fragment
Samples(pcm) == [k \in 1..(Len(pcm) \div 2) |-> SampleOf(pcm[2 * k - 1], pcm[2 * k])]

RECURSIVE SumSquares(_)
SumSquares(ss) ==
    IF ss = <<>> THEN 0 ELSE ss[1] * ss[1] + SumSquares(Tail(ss))

\* audioop.rms(pcm_bytes, 2) > threshold; rms is floor(sqrt(sum of squares / n)),
\* so it exceeds threshold exactly when the mean square reaches (threshold + 1)^2
RmsExceeds(pcm, threshold) ==
    LET ss == Samples(pcm) IN
    /\ ss # <<>>
    /\ SumSquares(ss) >= (threshold + 1) * (threshold + 1) * Len(ss)

-----------------------------------------------------------------------------
(* Inputs of the model *)

\* the texts the recogniser may deliver as its n-th final transcript:
\* one without sentence-ending punctuation, one with it and a trailing blank
TranscriptTexts(n) == {<<ToString(n)>>, <<ToString(n), "?", " ">>}

\* inbound media frames (mu-law): a quiet one (sample 120) and a loud one
Frames == {<<240>>, <<0>>}

\* what the synthesiser may return: nothing, or more than one chunk
PayloadLong == [k \in 1..(CHUNK_SIZE + 1) |-> 3]

Payloads == {<<>>, PayloadLong}

\* LLMService.generate_response: the model's reply, or the fallback text
\* returned when the API call raises (lines 70-72)
ReplyText(ok) == IF ok THEN <<"reply">> ELSE <<"Sorry, can you repeat that?">>

\* the outcome of an API call made in this session
LlmOutcomes == {api_reachable}


-----------------------------------------------------------------------------
(* CallRecording: pure parts *)

Utterance(speaker, text) == [speaker |-> speaker, text |-> text]

OutboundSegment(byte_position, audio) ==
    [byte_position |-> byte_position, audio |-> audio]

Silence(n) == [k \in 1..n |-> 0]

\* audio[:-1] when the length is odd
EvenPrefix(audio) ==
    IF Len(audio) % 2 = 1 THEN SubSeq(audio, 1, Len(audio) - 1) ELSE audio

\* the loop body without line 70: the payload is copied in at the offset
\* as recorded
ApplySegment_Unaligned(result, segment, total_length) ==
    LET start_pos == segment.byte_position
        audio     == EvenPrefix(segment.audio)
        end_pos   == Min2(start_pos + Len(audio), total_length)
    IN  IF start_pos >= total_length \/ start_pos < 0
        THEN result
        ELSE [k \in 1..Len(result) |->
                IF start_pos < k /\ k <= end_pos
                THEN audio[k - start_pos] ELSE result[k]]

\* the loop body without the min() of line 83: a payload that runs past
\* the end is copied in whole and the buffer grows
ApplySegment_NoClamp(result, segment, total_length) ==
    LET start_pos == ClearBit0(segment.byte_position)
        audio     == EvenPrefix(segment.audio)
        end_pos   == start_pos + Len(audio)
    IN  IF start_pos >= total_length \/ start_pos < 0
        THEN result
        ELSE [k \in 1..Max2(Len(result), end_pos) |->
                IF start_pos < k /\ k <= end_pos
                THEN audio[k - start_pos] ELSE result[k]]

\* the loop body with a negative offset moved to the start of the track
\* instead of skipped
ApplySegment_ClampsNegative(result, segment, total_length) ==
    LET start_pos == Max2(0, ClearBit0(segment.byte_position))
        audio     == EvenPrefix(segment.audio)
        end_pos   == Min2(start_pos + Len(audio), total_length)
    IN  IF start_pos >= total_length
        THEN result
        ELSE [k \in 1..Len(result) |->
                IF start_pos < k /\ k <= end_pos
                THEN audio[k - start_pos] ELSE result[k]]

\* the body of the loop of _build_aligned_outbound for one segment;
\* result is indexed from 1, byte positions from 0
ApplySegment(result, segment, total_length) ==
    LET start_pos == ClearBit0(segment.byte_position)
        audio     == EvenPrefix(segment.audio)
        end_pos   == Min2(start_pos + Len(audio), total_length)
    IN  IF start_pos >= total_length \/ start_pos < 0
        THEN result
        ELSE [k \in 1..Len(result) |->
                IF start_pos < k /\ k <= end_pos
                THEN audio[k - start_pos] ELSE result[k]]

RECURSIVE ApplySegments_Reversed(_, _, _)
\* the loop run over the segments from the last recorded to the first
ApplySegments_Reversed(result, segments, total_length) ==
    IF segments = <<>> THEN result
    ELSE ApplySegment(ApplySegments_Reversed(result, Tail(segments),
                                             total_length),
                      segments[1], total_length)

RECURSIVE ApplySegments(_, _, _)
ApplySegments(result, segments, total_length) ==
    IF segments = <<>> THEN result
    ELSE ApplySegments(ApplySegment(result, segments[1], total_length),
                       Tail(segments), total_length)

\* CallRecording._build_aligned_outbound(total_length)
BuildAlignedOutbound(segments, total_length) ==
    LET even_length == ClearBit0(total_length)
    IN  ApplySegments(Silence(even_length), segments, even_length)

RECURSIVE RawOutbound_EvenPayloads(_)
\* the payloads joined after the cut to even length that the aligned track
\* applies
RawOutbound_EvenPayloads(segments) ==
    IF segments = <<>> THEN <<>>
    ELSE EvenPrefix(segments[1].audio) \o RawOutbound_EvenPayloads(Tail(segments))

RECURSIVE RawOutbound(_)
\* b''.join(seg.audio for seg in self.outbound_segments)
RawOutbound(segments) ==
    IF segments = <<>> THEN <<>>
    ELSE segments[1].audio \o RawOutbound(Tail(segments))

\* bytes.ljust(n, b'\x00')
LJust(audio, n) ==
    IF Len(audio) >= n THEN audio ELSE audio \o Silence(n - Len(audio))

Clip16(v) == IF v > 32767 THEN 32767 ELSE IF v < -32768 THEN -32768 ELSE v

RECURSIVE SamplesToBytes(_)
SamplesToBytes(ss) ==
    IF ss = <<>> THEN <<>> ELSE SampleBytes(ss[1]) \o SamplesToBytes(Tail(ss))

\* audioop.mul with factor 1: the tracks are added at full amplitude
MulHalf_Unscaled(pcm) ==
    LET ss == Samples(pcm)
    IN  SamplesToBytes([k \in 1..Len(ss) |-> Clip16(ss[k])])

\* audioop.mul(fragment, 2, 0.5): floor of half of each sample
MulHalf(pcm) ==
    LET ss == Samples(pcm)
    IN  SamplesToBytes([k \in 1..Len(ss) |-> Clip16(ss[k] \div 2)])

\* audioop.add(fragment1, fragment2, 2): sample-wise sum, clipped to 16 bits
AddSamples(pcm1, pcm2) ==
    LET s1 == Samples(pcm1)
        s2 == Samples(pcm2)
    IN  SamplesToBytes([k \in 1..Len(s1) |-> Clip16(s1[k] + s2[k])])

\* _mix_audio cutting both tracks to the shorter one instead of padding
MixAudio_ShorterLength(audio1, audio2) ==
    LET a1      == EvenPrefix(audio1)
        a2      == EvenPrefix(audio2)
        min_len == ClearBit0(Min2(Len(a1), Len(a2)))
    IN  AddSamples(MulHalf(SubSeq(a1, 1, min_len)), MulHalf(SubSeq(a2, 1, min_len)))

\* CallRecording._mix_audio(audio1, audio2)
MixAudio(audio1, audio2) ==
    LET a1      == EvenPrefix(audio1)
        a2      == EvenPrefix(audio2)
        max_len == ClearBit0(Max2(Len(a1), Len(a2)))
    IN  AddSamples(MulHalf(LJust(a1, max_len)), MulHalf(LJust(a2, max_len)))

NotBuilt ==
    [built |-> FALSE, total_length |-> 0, segments |-> <<>>, result |-> <<>>]

NothingSaved ==
    [files |-> {}, transcript_json |-> <<>>, inbound_wav |-> <<>>,
     outbound_wav |-> <<>>, outbound_raw_wav |-> <<>>, combined_wav |-> <<>>]

\* CallRecording.save(): the files it writes and what each holds
SaveFiles(utts, inbound, segments) ==
    LET aligned == BuildAlignedOutbound(segments, Len(inbound))
    IN  [files |-> {"transcript.json", "transcript.txt"}
                   \cup (IF inbound # <<>> THEN {"inbound.wav"} ELSE {})
                   \cup (IF segments # <<>>
                         THEN {"outbound.wav", "outbound_raw.wav", "combined.wav"}
                         ELSE {}),
         transcript_json  |-> utts,
         inbound_wav      |-> inbound,
         outbound_wav     |-> IF segments # <<>> THEN aligned ELSE <<>>,
         outbound_raw_wav |-> RawOutbound(segments),
         combined_wav     |-> IF segments # <<>>
                              THEN MixAudio(inbound, aligned) ELSE <<>>]

-----------------------------------------------------------------------------
(* Coroutines.  Runner 0 is the start() coroutine, awaited by the handler;  *)
(* runner t >= 1 is the t-th task created for _delayed_response.            *)
(* pc is the suspension point the coroutine is waiting at:                   *)
(*   "settle"  asyncio.sleep(RESPONSE_DELAY)                    line 101     *)
(*   "poll1"   asyncio.sleep(0.1) of the first silence poll     line 106     *)
(*   "grace"   asyncio.sleep(0.5)                               line 117     *)
(*   "poll2"   asyncio.sleep(0.1) of the second silence poll    line 124     *)
(*   "synth"   tts.synthesize(response)                         line 158     *)
(*   "pace"    audio_sender(chunk), asyncio.sleep(CHUNK_DURATION)  189-190  *)

WaitPcs == {"settle", "poll1", "grace", "poll2"}

SpeakPcs == {"synth", "pace"}

DoneCo ==
    [pc |-> "done", must_cancel |-> FALSE, original_count |-> 0,
     combined_text |-> <<>>, pcm_audio |-> <<>>, start_position |-> 0,
     i |-> 0, emit_at |-> 0]

\* asyncio.create_task(self._delayed_response()): the new task runs to its
\* first await, the settle delay, without touching any state
NewTask == [DoneCo EXCEPT !.pc = "settle"]

Co(r) == IF r = 0 THEN start_co ELSE tasks[r]

Runners == 0..Len(tasks)

\* asyncio.Task.done()
TaskDone(t) == tasks[t].pc = "done"

\* cancel() called without the done() test of lines 89 and 195
CancelTask_NoDoneTest(ts, t) ==
    IF t = 0 THEN ts ELSE [ts EXCEPT ![t].must_cancel = TRUE]

\* Task.cancel(): a request; CancelledError is thrown into the coroutine at
\* its next resumption.  No effect on a task that is done.
CancelTask(ts, t) ==
    IF t = 0 \/ ts[t].pc = "done" THEN ts
    ELSE [ts EXCEPT ![t].must_cancel = TRUE]

SetCo(r, co) ==
    /\ start_co' = IF r = 0 THEN co ELSE start_co
    /\ tasks' = IF r = 0 THEN tasks ELSE [tasks EXCEPT ![r] = co]

-----------------------------------------------------------------------------
(* app.py: the connections and the CallState they share *)

Connections == 1..MaxConnections

\* CallState.__init__
NoCall == [websocket |-> 0, stream_sid |-> 0, conversation |-> 0]

\* a connection that has not been made yet; started: its start event has
\* been handled
Unconnected == [pc |-> "unconnected", started |-> FALSE]

-----------------------------------------------------------------------------
(* LLMService.generate_response: an async def without an await, so it runs   *)
(* to completion inside the caller's step; API errors are caught in it.      *)

NoText == <<>>

GenerateResponse(conversation, agent_text, ok) ==
    LET with_user == IF agent_text # NoText
                     THEN Append(conversation,
                                 [role |-> "user", content |-> agent_text])
                     ELSE conversation
    IN  IF ok
        THEN Append(with_user, [role |-> "assistant", content |-> ReplyText(TRUE)])
        ELSE with_user

-----------------------------------------------------------------------------
(* ConversationManager._generate_and_speak *)

\* lines 149-158: from entry to the suspension in tts.synthesize
\* the sequence without line 149: the flag is left as it is
GenerateAndSpeak_FlagUnset(r, agent_text) ==
    /\ is_bot_speaking' = is_bot_speaking
    /\ \E ok \in LlmOutcomes :
          /\ llm_conversation' = GenerateResponse(llm_conversation, agent_text, ok)
          /\ utterances' = Append(utterances, Utterance("patient", ReplyText(ok)))
    /\ SetCo(r, [DoneCo EXCEPT !.pc = "synth"])

GenerateAndSpeak(r, agent_text) ==
    /\ is_bot_speaking' = TRUE
    /\ \E ok \in LlmOutcomes :
          /\ llm_conversation' = GenerateResponse(llm_conversation, agent_text, ok)
          /\ utterances' = Append(utterances, Utterance("patient", ReplyText(ok)))
    /\ SetCo(r, [DoneCo EXCEPT !.pc = "synth"])

\* a finally clause that schedules a follow-up whatever the buffer holds
Finally_AlwaysFollowsUp(r) ==
    /\ is_bot_speaking' = FALSE
    /\ start_co' = IF r = 0 THEN DoneCo ELSE start_co
    /\ LET ended == IF r = 0 THEN tasks ELSE [tasks EXCEPT ![r] = DoneCo]
       IN  /\ tasks' = Append(ended, NewTask)
           /\ response_task' = Len(tasks) + 1
    /\ handler_pc' = IF r = 0 THEN "loop" ELSE handler_pc

\* the finally clause without lines 175-177: no follow-up is scheduled
Finally_NoFollowUp(r) ==
    /\ is_bot_speaking' = FALSE
    /\ start_co' = IF r = 0 THEN DoneCo ELSE start_co
    /\ tasks' = IF r = 0 THEN tasks ELSE [tasks EXCEPT ![r] = DoneCo]
    /\ response_task' = response_task
    /\ handler_pc' = IF r = 0 THEN "loop" ELSE handler_pc

\* lines 171-177, the finally clause, and the end of the coroutine that ran it
Finally(r) ==
    /\ is_bot_speaking' = FALSE
    /\ start_co' = IF r = 0 THEN DoneCo ELSE start_co
    /\ LET ended == IF r = 0 THEN tasks ELSE [tasks EXCEPT ![r] = DoneCo]
       IN  IF pending_agent_text # <<>>
           THEN /\ tasks' = Append(ended, NewTask)
                /\ response_task' = Len(tasks) + 1
           ELSE /\ tasks' = ended
                /\ response_task' = response_task
    /\ handler_pc' = IF r = 0 THEN "loop" ELSE handler_pc

\* line 161
StartPosition(inbound) == Len(inbound)

\* a recorder that puts the newest segment first
AddOutboundAudio_Prepends(segments, audio_bytes, start_position) ==
    <<OutboundSegment(start_position, audio_bytes)>> \o segments

\* line 167 with recorder.py 54-60
AddOutboundAudio(segments, audio_bytes, start_position) ==
    Append(segments, OutboundSegment(start_position, audio_bytes))

\* the offset taken when the segment is recorded, after the send loop
RecordAndFinish_LateOffset(r, pcm_audio, start_position, emit_at) ==
    /\ outbound_segments' =
          AddOutboundAudio(outbound_segments, pcm_audio,
                           StartPosition(inbound_audio))
    /\ emit_started_at' = Append(emit_started_at, emit_at)
    /\ Finally(r)

\* lines 166-167 and the finally clause: the send loop is over (at once
\* when the payload is empty) and the segment is recorded
RecordAndFinish(r, pcm_audio, start_position, emit_at) ==
    /\ outbound_segments' =
          AddOutboundAudio(outbound_segments, pcm_audio, start_position)
    /\ emit_started_at' = Append(emit_started_at, emit_at)
    /\ Finally(r)

\* the flag reset at the end of the try block instead of in a finally
\* clause: an Exception ends the coroutine with is_bot_speaking still set
ExceptionCaught_NoReset(r) ==
    /\ SetCo(r, DoneCo)
    /\ handler_pc' = IF r = 0 THEN "loop" ELSE handler_pc
    /\ UNCHANGED <<is_bot_speaking, response_task, outbound_segments,
                   emit_started_at>>

\* lines 169-177: an Exception raised by tts.synthesize or by audio_sender
\* is caught and logged, nothing is recorded, and the finally clause runs
ExceptionCaught(r) ==
    /\ Finally(r)
    /\ UNCHANGED <<outbound_segments, emit_started_at>>

\* a send loop whose failure is swallowed: the segment is recorded although
\* the sender raised
SendChunk_RecordsOnFailure(r, co, i, sender_ok) ==
    IF sender_ok
    THEN /\ SetCo(r, [co EXCEPT !.pc = "pace", !.i = i])
         /\ UNCHANGED <<is_bot_speaking, response_task, handler_pc,
                        outbound_segments, emit_started_at>>
    ELSE RecordAndFinish(r, co.pcm_audio, co.start_position, co.emit_at)

\* One iteration of the loop of _send_audio_chunks, lines 186-190: the chunk
\* at offset i is handed to audio_sender, which either raises (except
\* Exception, then the finally clause) or accepts it, and the coroutine then
\* sleeps CHUNK_DURATION.  The await of the sender and the sleep that follows
\* it are one suspension here: nothing the coroutine does lies between them.
SendChunk(r, co, i, sender_ok) ==
    IF sender_ok
    THEN /\ SetCo(r, [co EXCEPT !.pc = "pace", !.i = i])
         /\ UNCHANGED <<is_bot_speaking, response_task, handler_pc,
                        outbound_segments, emit_started_at>>
    ELSE ExceptionCaught(r)

\* tts.synthesize returned pcm_audio: lines 158-164 up to the first
\* audio_sender(chunk), handed over in the same step as line 161
SynthReturned(r, pcm_audio, sender_ok) ==
    LET start_position == StartPosition(inbound_audio)
    IN  IF Len(pcm_audio) = 0
        THEN RecordAndFinish(r, pcm_audio, start_position, -1)
        ELSE SendChunk(r, [Co(r) EXCEPT !.pcm_audio = pcm_audio,
                                        !.start_position = start_position,
                                        !.emit_at = Len(inbound_audio)],
                       0, sender_ok)

\* the pacing sleep ended: next iteration of the loop of _send_audio_chunks,
\* or lines 166-167 and the finally clause after the last chunk
PaceEnded(r, sender_ok) ==
    LET co     == Co(r)
        next_i == co.i + CHUNK_SIZE
    IN  IF next_i < Len(co.pcm_audio)
        THEN SendChunk(r, co, next_i, sender_ok)
        ELSE RecordAndFinish(r, co.pcm_audio, co.start_position, co.emit_at)

\* a coroutine in its generate/speak phase is resumed
SpeakStep(r) ==
    LET co == Co(r) IN
    /\ co.pc \in SpeakPcs
    /\ ~co.must_cancel
    /\ \/ /\ co.pc = "synth"
          /\ ~tts_closed
          /\ \E pcm_audio \in Payloads, sender_ok \in BOOLEAN :
                SynthReturned(r, pcm_audio, sender_ok)
       \/ \* tts.synthesize raised
          /\ co.pc = "synth"
          /\ ExceptionCaught(r)
       \/ /\ co.pc = "pace"
          /\ \E sender_ok \in BOOLEAN : PaceEnded(r, sender_ok)
    /\ UNCHANGED <<stt_active, tts_closed, pending_agent_text, voice_recent,
                   llm_conversation, utterances, inbound_audio, saved,
                   aligned_out, api_reachable>>

-----------------------------------------------------------------------------
(* ConversationManager._delayed_response: the wait phase *)

\* a task that gives up when the buffered text has no sentence ending
Combine_DropsUnpunctuated(co, pending) ==
    IF pending = <<>> \/ ~EndsSentence(Join(pending))
    THEN [respond |-> FALSE, co |-> DoneCo]
    ELSE [respond |-> TRUE, co |-> [co EXCEPT !.combined_text = Join(pending)]]

\* a task that responds at once whatever the buffered text ends with
Combine_NoGrace(co, pending) ==
    IF pending = <<>>
    THEN [respond |-> FALSE, co |-> DoneCo]
    ELSE [respond |-> TRUE, co |-> [co EXCEPT !.combined_text = Join(pending)]]

\* a task that joins the first buffered text only
Combine_JoinsFirstOnly(co, pending) ==
    IF pending = <<>>
    THEN [respond |-> FALSE, co |-> DoneCo]
    ELSE LET combined_text == pending[1]
         IN  IF ~EndsSentence(combined_text)
             THEN [respond |-> FALSE,
                   co |-> [co EXCEPT !.pc = "grace",
                                     !.original_count = Len(pending),
                                     !.combined_text = combined_text]]
             ELSE [respond |-> TRUE,
                   co |-> [co EXCEPT !.combined_text = combined_text]]

\* lines 109-117 and 126: the buffered text is looked at once silence is seen
Combine(co, pending) ==
    IF pending = <<>>
    THEN [respond |-> FALSE, co |-> DoneCo]
    ELSE LET combined_text == Join(pending)
         IN  IF ~EndsSentence(combined_text)
             THEN [respond |-> FALSE,
                   co |-> [co EXCEPT !.pc = "grace",
                                     !.original_count = Len(pending),
                                     !.combined_text = combined_text]]
             ELSE [respond |-> TRUE,
                   co |-> [co EXCEPT !.combined_text = combined_text]]

\* a wait phase that polls for silence once only
WaitStep_OnePoll(co, pending, voice) ==
    CASE co.pc = "settle" ->
            IF voice
            THEN [respond |-> FALSE, co |-> [co EXCEPT !.pc = "poll1"]]
            ELSE Combine(co, pending)
      [] co.pc = "poll1" -> Combine(co, pending)
      [] OTHER -> [respond |-> TRUE, co |-> co]

\* One resumption of a task waiting at co.pc, given the buffer and the
\* outcome of the voice-activity test at that instant.  respond says that
\* line 126 is reached: the buffer is cleared and co.combined_text is
\* passed to _generate_and_speak in the same step.
WaitStep(co, pending, voice) ==
    CASE co.pc \in {"settle", "poll1"} ->
            IF voice
            THEN [respond |-> FALSE, co |-> [co EXCEPT !.pc = "poll1"]]
            ELSE Combine(co, pending)
      [] co.pc = "grace" ->
            IF Len(pending) > co.original_count
            THEN LET again == [co EXCEPT !.combined_text = Join(pending)]
                 IN  IF voice
                     THEN [respond |-> FALSE, co |-> [again EXCEPT !.pc = "poll2"]]
                     ELSE [respond |-> TRUE, co |-> again]
            ELSE [respond |-> TRUE, co |-> co]
      [] co.pc = "poll2" ->
            IF voice
            THEN [respond |-> FALSE, co |-> co]
            ELSE [respond |-> TRUE, co |-> co]

\* a sleep of the wait phase of task t ends
WaitResume(t) ==
    LET out == WaitStep(tasks[t], pending_agent_text, voice_recent) IN
    /\ t \in 1..Len(tasks)
    /\ tasks[t].pc \in WaitPcs
    /\ ~tasks[t].must_cancel
    /\ IF out.respond
       THEN /\ pending_agent_text' = <<>>
            /\ GenerateAndSpeak(t, out.co.combined_text)
            /\ UNCHANGED response_task
       ELSE /\ SetCo(t, out.co)
            /\ UNCHANGED <<pending_agent_text, is_bot_speaking, response_task,
                           llm_conversation, utterances>>
    /\ UNCHANGED <<handler_pc, stt_active, tts_closed, voice_recent,
                   inbound_audio, outbound_segments, emit_started_at, saved,
                   aligned_out, api_reachable>>

\* a cancellation handler that discards what was buffered
CancelledInWait_Clears(pending) == <<>>

\* what a CancelledError thrown at a suspension point of the wait phase
\* does to the buffer: lines 130-132
CancelledInWait(pending) == pending

\* CancelledError is thrown into task t at its suspension point.  In the
\* wait phase it is caught at line 130.  In the generate/speak phase it is
\* not an Exception: the finally clause runs, then line 130 catches it.
CancelDeliver(t) ==
    /\ t \in 1..Len(tasks)
    /\ tasks[t].pc # "done"
    /\ tasks[t].must_cancel
    /\ IF tasks[t].pc \in WaitPcs
       THEN /\ SetCo(t, DoneCo)
            /\ pending_agent_text' = CancelledInWait(pending_agent_text)
            /\ UNCHANGED <<is_bot_speaking, response_task, handler_pc>>
       ELSE /\ Finally(t)
            /\ UNCHANGED pending_agent_text
    /\ UNCHANGED <<stt_active, tts_closed, voice_recent, llm_conversation,
                   utterances, inbound_audio, outbound_segments,
                   emit_started_at, saved, aligned_out, api_reachable>>

-----------------------------------------------------------------------------
(* ConversationManager.on_transcript, called by the receive loop of the STT *)

NumFinal == Cardinality({k \in 1..Len(utterances) : utterances[k].speaker = "agent"})

\* Schedule without the test of line 83: a transcript always supersedes
Schedule_IgnoresSpeaking(text, speaking, pending, ts, rt) ==
    [pending |-> Append(pending, text),
     tasks |-> Append(CancelTask(ts, rt), NewTask),
     response_task |-> Len(ts) + 1]

\* Schedule with the buffer restarted when a task is superseded
Schedule_RestartsBuffer(text, speaking, pending, ts, rt) ==
    IF speaking
    THEN [pending |-> Append(pending, text), tasks |-> ts, response_task |-> rt]
    ELSE [pending |-> <<text>>,
          tasks |-> Append(CancelTask(ts, rt), NewTask),
          response_task |-> Len(ts) + 1]

\* Schedule without lines 89-90: the earlier task is not cancelled
Schedule_NoCancel(text, speaking, pending, ts, rt) ==
    IF speaking
    THEN [pending |-> Append(pending, text), tasks |-> ts, response_task |-> rt]
    ELSE [pending |-> Append(pending, text),
          tasks |-> Append(ts, NewTask),
          response_task |-> Len(ts) + 1]

\* Schedule without line 85: a transcript heard while speaking is dropped
Schedule_DropsWhileSpeaking(text, speaking, pending, ts, rt) ==
    IF speaking
    THEN [pending |-> pending, tasks |-> ts, response_task |-> rt]
    ELSE [pending |-> Append(pending, text),
          tasks |-> Append(CancelTask(ts, rt), NewTask),
          response_task |-> Len(ts) + 1]

\* lines 82-96 for a final transcript: the buffer, the tasks and response_task
Schedule(text, speaking, pending, ts, rt) ==
    IF speaking
    THEN [pending |-> Append(pending, text), tasks |-> ts, response_task |-> rt]
    ELSE [pending |-> Append(pending, text),
          tasks |-> Append(CancelTask(ts, rt), NewTask),
          response_task |-> Len(ts) + 1]

\* on_transcript without lines 76-77: an interim transcript is handled as
\* a final one
OnTranscript_NoInterimTest(text, is_final) ==
    /\ stt_active
    /\ LET out == Schedule(text, is_bot_speaking, pending_agent_text,
                           tasks, response_task)
       IN  /\ utterances' = Append(utterances, Utterance("agent", text))
           /\ pending_agent_text' = out.pending
           /\ tasks' = out.tasks
           /\ response_task' = out.response_task
    /\ UNCHANGED <<handler_pc, stt_active, tts_closed, is_bot_speaking,
                   voice_recent, start_co, llm_conversation, inbound_audio,
                   outbound_segments, emit_started_at, saved, aligned_out,
                   api_reachable>>

\* on_transcript with line 80 moved behind the test of line 83: a transcript
\* heard while the bot speaks is buffered and not recorded
OnTranscript_RecordsWhenIdle(text, is_final) ==
    /\ stt_active
    /\ IF ~is_final
       THEN UNCHANGED <<utterances, pending_agent_text, tasks, response_task>>
       ELSE LET out == Schedule(text, is_bot_speaking, pending_agent_text,
                                tasks, response_task)
            IN  /\ utterances' = IF is_bot_speaking
                                 THEN utterances
                                 ELSE Append(utterances, Utterance("agent", text))
                /\ pending_agent_text' = out.pending
                /\ tasks' = out.tasks
                /\ response_task' = out.response_task
    /\ UNCHANGED <<handler_pc, stt_active, tts_closed, is_bot_speaking,
                   voice_recent, start_co, llm_conversation, inbound_audio,
                   outbound_segments, emit_started_at, saved, aligned_out,
                   api_reachable>>

OnTranscript(text, is_final) ==
    /\ stt_active
    /\ IF ~is_final
       THEN UNCHANGED <<utterances, pending_agent_text, tasks, response_task>>
       ELSE LET out == Schedule(text, is_bot_speaking, pending_agent_text,
                                tasks, response_task)
            IN  /\ utterances' = Append(utterances, Utterance("agent", text))
                /\ pending_agent_text' = out.pending
                /\ tasks' = out.tasks
                /\ response_task' = out.response_task
    /\ UNCHANGED <<handler_pc, stt_active, tts_closed, is_bot_speaking,
                   voice_recent, start_co, llm_conversation, inbound_audio,
                   outbound_segments, emit_started_at, saved, aligned_out,
                   api_reachable>>

-----------------------------------------------------------------------------
(* ConversationManager.add_inbound_audio, called by the handler for each    *)
(* media event once the conversation exists and start() has returned        *)

VoiceAfterFrame(pcm_bytes, voice) ==
    IF RmsExceeds(pcm_bytes, SILENCE_THRESHOLD) THEN TRUE ELSE voice

AddInboundAudio(mulaw_bytes) ==
    LET pcm_bytes == Ulaw2Lin(mulaw_bytes) IN
    /\ handler_pc = "loop"
    /\ Len(inbound_audio) < 2 * MaxFrames
    /\ inbound_audio' = inbound_audio \o pcm_bytes
    /\ voice_recent' = VoiceAfterFrame(pcm_bytes, voice_recent)
    /\ UNCHANGED <<handler_pc, stt_active, tts_closed, is_bot_speaking,
                   pending_agent_text, response_task, start_co, tasks,
                   llm_conversation, utterances, outbound_segments,
                   emit_started_at, saved, aligned_out, api_reachable>>

\* VOICE_ACTIVITY_TIMEOUT passes without a frame above the threshold
SilenceElapses ==
    /\ voice_recent
    /\ voice_recent' = FALSE
    /\ UNCHANGED <<handler_pc, stt_active, tts_closed, is_bot_speaking,
                   pending_agent_text, response_task, start_co, tasks,
                   llm_conversation, utterances, inbound_audio,
                   outbound_segments, emit_started_at, saved, aligned_out,
                   api_reachable>>

-----------------------------------------------------------------------------
(* The handler: app.media_stream, ConversationManager.start and stop *)

\* the "start" event: the conversation is created and start() is awaited
\* inside the message loop; it runs to the suspension in tts.synthesize
Start ==
    /\ handler_pc = "connected"
    /\ handler_pc' = "starting"
    /\ stt_active' = TRUE
    /\ GenerateAndSpeak(0, NoText)
    /\ UNCHANGED <<tts_closed, pending_agent_text, response_task, voice_recent,
                   inbound_audio, outbound_segments, emit_started_at, saved,
                   aligned_out, api_reachable>>

\* the message loop ends; cleanup() awaits stop(): lines 194-198 up to the
\* suspension in stt.stop_stream, which has cancelled the receive loop
Stop ==
    /\ handler_pc = "loop"
    /\ handler_pc' = "stopping"
    /\ tasks' = CancelTask(tasks, response_task)
    /\ stt_active' = FALSE
    /\ UNCHANGED <<tts_closed, is_bot_speaking, pending_agent_text,
                   response_task, voice_recent, start_co, llm_conversation,
                   utterances, inbound_audio, outbound_segments,
                   emit_started_at, saved, aligned_out, api_reachable>>

\* lines 198-202: stop_stream() has returned; tts.close() closes the client
\* and, once it returns, recording.save() writes the files
StopSave ==
    /\ handler_pc = "stopping"
    /\ handler_pc' = "stopped"
    /\ tts_closed' = TRUE
    /\ saved' = SaveFiles(utterances, inbound_audio, outbound_segments)
    /\ UNCHANGED <<stt_active, is_bot_speaking, pending_agent_text,
                   response_task, voice_recent, start_co, tasks,
                   llm_conversation, utterances, inbound_audio,
                   outbound_segments, emit_started_at, aligned_out,
                   api_reachable>>

-----------------------------------------------------------------------------
(* The session *)

\* AppState() (app.py 32-36): no call yet, none in progress
NoStatus == [last_call_id |-> 0, call_in_progress |-> FALSE]

\* wait_for_call_complete not called yet
NotWaiting == [pc |-> "idle", initial_call_id |-> 0, timeout |-> 0,
               elapsed |-> 0, seen_new_call |-> FALSE, returned |-> 0,
               polls_failed |-> 0]

\* line 57: last_voice_activity = 0 is the epoch, further back than any
\* timeout; no transcript has been heard; the clock reads 0
InitTime ==
    /\ silent_for = VOICE_ACTIVITY_TIMEOUT
    /\ sleep_left = <<0>>
    /\ task_age = <<>>
    /\ since_trigger = RESPONSE_DELAY
    /\ now = 0
    /\ utter_times = <<>>
    /\ interims_heard = 0
    /\ cancel_obs = [calls |-> 0, caller |-> "none", before |-> <<>>, first |-> <<>>]
    /\ active_call = NoCall
    /\ handlers = [c \in Connections |-> Unconnected]
    /\ managers = <<>>
    /\ app_state = NoStatus
    /\ waiter = NotWaiting
    /\ sent_chunks = <<>>

Init ==
    /\ handler_pc = "connected"
    /\ stt_active = FALSE
    /\ tts_closed = FALSE
    /\ is_bot_speaking = FALSE
    /\ pending_agent_text = <<>>
    /\ response_task = 0
    /\ voice_recent = FALSE
    /\ start_co = [DoneCo EXCEPT !.pc = "new"]
    /\ tasks = <<>>
    /\ llm_conversation = <<>>
    /\ utterances = <<>>
    /\ inbound_audio = <<>>
    /\ outbound_segments = <<>>
    /\ emit_started_at = <<>>
    /\ saved = NothingSaved
    /\ aligned_out = NotBuilt
    /\ api_reachable \in BOOLEAN
    /\ InitTime

Next ==
    \/ Start /\ UNCHANGED timeVars
    \/ (\E r \in Runners : SpeakStep(r)) /\ UNCHANGED timeVars
    \/ (\E t \in 1..Len(tasks) : WaitResume(t)) /\ UNCHANGED timeVars
    \/ (\E t \in 1..Len(tasks) : CancelDeliver(t)) /\ UNCHANGED timeVars
    \/ /\ NumFinal < MaxTranscripts
       /\ \E text \in TranscriptTexts(NumFinal + 1) : OnTranscript(text, TRUE)
       /\ UNCHANGED timeVars
    \/ OnTranscript(<<"interim">>, FALSE) /\ UNCHANGED timeVars
    \/ (\E frame \in Frames : AddInboundAudio(frame)) /\ UNCHANGED timeVars
    \/ SilenceElapses /\ UNCHANGED timeVars
    \/ Stop /\ UNCHANGED timeVars
    \/ StopSave /\ UNCHANGED timeVars

Spec == Init /\ [][Next]_vars

-----------------------------------------------------------------------------
(* The session under fair progress: the event loop resumes every coroutine   *)
(* whose sleep has ended or whose awaited collaborator has answered or       *)
(* failed, delivers every requested cancellation, and time passes, so a      *)
(* silence of VOICE_ACTIVITY_TIMEOUT elapses unless a loud frame arrives.    *)
(* Nothing obliges the remote party to speak or the call to end.             *)

NextLive ==
    \/ Start /\ UNCHANGED timeVars
    \/ (\E r \in Runners : SpeakStep(r)) /\ UNCHANGED timeVars
    \/ (\E t \in 1..Len(tasks) : WaitResume(t)) /\ UNCHANGED timeVars
    \/ (\E t \in 1..Len(tasks) : CancelDeliver(t)) /\ UNCHANGED timeVars
    \/ /\ NumFinal < MaxLiveTranscripts
       /\ \E text \in TranscriptTexts(NumFinal + 1) : OnTranscript(text, TRUE)
       /\ UNCHANGED timeVars
    \/ OnTranscript(<<"interim">>, FALSE) /\ UNCHANGED timeVars
    \/ (\E frame \in Frames : AddInboundAudio(frame)) /\ UNCHANGED timeVars
    \/ SilenceElapses /\ UNCHANGED timeVars
    \/ Stop /\ UNCHANGED timeVars
    \/ StopSave /\ UNCHANGED timeVars

FairLive ==
    /\ WF_vars((\E r \in Runners : SpeakStep(r)) /\ UNCHANGED timeVars)
    /\ WF_vars((\E t \in 1..Len(tasks) : WaitResume(t)) /\ UNCHANGED timeVars)
    /\ WF_vars((\E t \in 1..Len(tasks) : CancelDeliver(t))
                  /\ UNCHANGED timeVars)
    /\ WF_vars(SilenceElapses /\ UNCHANGED timeVars)

SpecLive == Init /\ [][NextLive]_vars /\ FairLive

-----------------------------------------------------------------------------
(* The session with timers.  Each action is the action of Spec together      *)
(* with what it reads off the clock; durations are kept instead of dates,    *)
(* each capped at the delay it is compared with.  asyncio.sleep(d) ends no   *)
(* earlier than d after it began; the event loop resumes a coroutine at      *)
(* most MaxLateness after its sleep has ended or its collaborator could      *)
(* answer, and delivers a cancellation before the clock moves.  The sleeps   *)
(* of the send loop (CHUNK_DURATION, a fifth of the unit) and the            *)
(* collaborators' latencies count as 0.  The call stays open.                *)

\* sleeps with a settle delay one unit short
SleepAt_ShortSettle(pc) ==
    CASE pc = "settle" -> RESPONSE_DELAY - 1
      [] pc \in {"poll1", "poll2"} -> PollInterval
      [] pc = "grace" -> GraceWindow
      [] OTHER -> 0

\* the sleep a coroutine begins when it suspends at pc
SleepAt(pc) ==
    CASE pc = "settle" -> RESPONSE_DELAY
      [] pc \in {"poll1", "poll2"} -> PollInterval
      [] pc = "grace" -> GraceWindow
      [] OTHER -> 0

\* sleep_left after a step in which the runners in ran were resumed: a
\* runner that ran or was created begins the sleep of its new suspension
\* point (entry r + 1 is runner r; 0 when it has none)
SleepsAfter(ran) ==
    [k \in 1..(Len(tasks') + 1) |->
        LET r  == k - 1
            co == IF r = 0 THEN start_co' ELSE tasks'[r]
        IN  IF co.pc \in {"done", "new"} \/ co.must_cancel THEN 0
            ELSE IF r \in ran \/ r > Len(tasks) THEN SleepAt(co.pc)
            ELSE sleep_left[k]]

\* task_age after a step (0 once the task has left its wait phase)
AgesAfter ==
    [t \in 1..Len(tasks') |->
        IF tasks'[t].pc \notin WaitPcs \/ tasks'[t].must_cancel THEN 0
        ELSE IF t > Len(tasks) THEN 0
        ELSE task_age[t]]

StampTasks(ran) ==
    /\ sleep_left' = SleepsAfter(ran)
    /\ task_age' = AgesAfter

\* app.py lines 118-126: start() is awaited as soon as the conversation is
\* constructed
TimedStart ==
    /\ Start
    /\ StampTasks({0})
    /\ UNCHANGED <<silent_for, since_trigger, obsVars>>

TimedSpeakStep(r) ==
    /\ SpeakStep(r)
    /\ sleep_left[r + 1] <= 0
    /\ StampTasks({r})
    /\ UNCHANGED <<silent_for, since_trigger, obsVars>>

\* the sleep of task t has ended and the task is resumed: the silence test
\* of lines 104 and 123 reads the clock
TimedWaitResume(t) ==
    /\ t \in 1..Len(tasks)
    /\ sleep_left[t + 1] <= 0
    /\ voice_recent = (silent_for < VOICE_ACTIVITY_TIMEOUT)
    /\ WaitResume(t)
    /\ StampTasks({t})
    /\ UNCHANGED <<silent_for, since_trigger, obsVars>>

\* cancelling a task cancels the sleep it is suspended in: no waiting
TimedCancelDeliver(t) ==
    /\ CancelDeliver(t)
    /\ StampTasks({})
    /\ UNCHANGED <<silent_for, since_trigger, obsVars>>

TimedOnTranscript(text, is_final) ==
    /\ OnTranscript(text, is_final)
    /\ StampTasks({})
    /\ since_trigger' = IF is_final /\ ~is_bot_speaking
                        THEN 0 ELSE since_trigger
    /\ UNCHANGED <<silent_for, obsVars>>

\* line 143: a frame above the threshold sets last_voice_activity
TimedAddInboundAudio(mulaw_bytes) ==
    /\ AddInboundAudio(mulaw_bytes)
    /\ silent_for' = IF RmsExceeds(Ulaw2Lin(mulaw_bytes), SILENCE_THRESHOLD)
                     THEN 0 ELSE silent_for
    /\ UNCHANGED <<sleep_left, task_age, since_trigger, obsVars>>

Live(r) == Co(r).pc \notin {"done", "new"}

\* runner r must be resumed before the clock moves
Overdue(r) ==
    /\ Live(r)
    /\ Co(r).must_cancel \/ sleep_left[r + 1] <= 0 - MaxLateness

\* a tenth of a second passes
Tick ==
    /\ handler_pc # "connected"
    /\ \A r \in Runners : ~Overdue(r)
    /\ silent_for' = Min2(silent_for + 1, VOICE_ACTIVITY_TIMEOUT)
    /\ voice_recent' = (silent_for' < VOICE_ACTIVITY_TIMEOUT)
    /\ since_trigger' = Min2(since_trigger + 1, RESPONSE_DELAY)
    /\ sleep_left' = [k \in 1..Len(sleep_left) |->
                        IF Live(k - 1) THEN sleep_left[k] - 1 ELSE 0]
    /\ task_age' = [t \in 1..Len(task_age) |->
                      IF tasks[t].pc \in WaitPcs /\ ~tasks[t].must_cancel
                      THEN Min2(task_age[t] + 1, RESPONSE_DELAY) ELSE 0]
    /\ UNCHANGED <<handler_pc, stt_active, tts_closed, is_bot_speaking,
                   pending_agent_text, response_task, start_co, tasks,
                   llm_conversation, utterances, inbound_audio,
                   outbound_segments, emit_started_at, saved, aligned_out,
                   api_reachable, obsVars>>

NextTimed ==
    \/ TimedStart
    \/ \E r \in Runners : TimedSpeakStep(r)
    \/ \E t \in 1..Len(tasks) : TimedWaitResume(t)
    \/ \E t \in 1..Len(tasks) : TimedCancelDeliver(t)
    \/ /\ NumFinal < MaxTimedTranscripts
       /\ \E text \in TranscriptTexts(NumFinal + 1) :
             TimedOnTranscript(text, TRUE)
    \/ TimedOnTranscript(<<"interim">>, FALSE)
    \/ \E frame \in Frames : TimedAddInboundAudio(frame)
    \/ Tick

\* the timers do not depend on what the language model answers
InitTimed == Init /\ api_reachable

SpecTimed == InitTimed /\ [][NextTimed]_vars

-----------------------------------------------------------------------------
(* The session with the interim transcripts counted: the receive loop of    *)
(* the STT calls on_transcript(text, False) for each interim result.        *)

HearInterim ==
    /\ interims_heard < MaxInterims
    /\ OnTranscript(<<"interim">>, FALSE)
    /\ interims_heard' = interims_heard + 1
    /\ UNCHANGED <<silent_for, sleep_left, task_age, since_trigger, now,
                   utter_times, cancel_obs, active_call,
                   handlers, managers, app_state,
                   waiter, sent_chunks>>

NextInterim ==
    \/ Start /\ UNCHANGED timeVars
    \/ (\E r \in Runners : SpeakStep(r)) /\ UNCHANGED timeVars
    \/ (\E t \in 1..Len(tasks) : WaitResume(t)) /\ UNCHANGED timeVars
    \/ (\E t \in 1..Len(tasks) : CancelDeliver(t)) /\ UNCHANGED timeVars
    \/ /\ NumFinal < MaxLiveTranscripts
       /\ \E text \in TranscriptTexts(NumFinal + 1) : OnTranscript(text, TRUE)
       /\ UNCHANGED timeVars
    \/ HearInterim
    \/ (\E frame \in Frames : AddInboundAudio(frame)) /\ UNCHANGED timeVars
    \/ SilenceElapses /\ UNCHANGED timeVars
    \/ Stop /\ UNCHANGED timeVars
    \/ StopSave /\ UNCHANGED timeVars

SpecInterim == Init /\ [][NextInterim]_vars

-----------------------------------------------------------------------------
(* The session with the recorder's clock: CallRecording.add_utterance stamps *)
(* each utterance with time.time() - start_time.  now counts the ticks of    *)
(* that clock since start_time; the clock is taken as never running          *)
(* backwards, and holds still once MaxClock ticks have passed.  No media      *)
(* frame arrives, so the line is silent throughout.                          *)

\* recorder.py line 47: the stamp of an utterance appended in this step
StampUtterances ==
    /\ utter_times' = IF Len(utterances') > Len(utterances)
                      THEN Append(utter_times, now)
                      ELSE utter_times
    /\ UNCHANGED <<silent_for, sleep_left, task_age, since_trigger, now,
                   interims_heard, cancel_obs, active_call,
                   handlers, managers, app_state,
                   waiter, sent_chunks>>

ClockTick ==
    /\ now < MaxClock
    /\ now' = now + 1
    /\ UNCHANGED <<handler_pc, stt_active, tts_closed, is_bot_speaking,
                   pending_agent_text, response_task, tasks, voice_recent,
                   start_co, llm_conversation, utterances, inbound_audio,
                   outbound_segments, emit_started_at, saved, aligned_out,
                   api_reachable, silent_for, sleep_left, task_age,
                   since_trigger, utter_times, interims_heard, cancel_obs, active_call,
                   handlers, managers, app_state,
                   waiter, sent_chunks>>

NextStamped ==
    \/ Start /\ StampUtterances
    \/ (\E r \in Runners : SpeakStep(r)) /\ StampUtterances
    \/ (\E t \in 1..Len(tasks) : WaitResume(t)) /\ StampUtterances
    \/ (\E t \in 1..Len(tasks) : CancelDeliver(t)) /\ StampUtterances
    \/ /\ NumFinal < MaxStampedTranscripts
       /\ \E text \in TranscriptTexts(NumFinal + 1) : OnTranscript(text, TRUE)
       /\ StampUtterances
    \/ OnTranscript(<<"interim">>, FALSE) /\ StampUtterances
    \/ Stop /\ StampUtterances
    \/ StopSave /\ StampUtterances
    \/ ClockTick

\* the language model answers throughout
InitStamped == Init /\ api_reachable

SpecStamped == InitStamped /\ [][NextStamped]_vars

-----------------------------------------------------------------------------
(* Cancellation requests alone: lines 89-90 of on_transcript and lines       *)
(* 195-196 of stop() applied, any number of times, to the task lists a       *)
(* session can hold: every task but the last is done or has a cancellation   *)
(* pending in its wait phase, the last is in any state, and response_task    *)
(* is the last task (None when there is none).                               *)

\* a coroutine suspended at pc, cancellation requested or not
CoAt(pc, must_cancel) == [DoneCo EXCEPT !.pc = pc, !.must_cancel = must_cancel]

SupersededTasks == {DoneCo} \cup {CoAt(pc, TRUE) : pc \in {"settle", "poll1", "grace"}}

LatestTasks ==
    {DoneCo} \cup {CoAt(pc, c) : pc \in {"settle", "poll1", "grace", "synth", "pace"},
                                 c \in BOOLEAN}

InitCancel ==
    /\ handler_pc = "loop"
    /\ stt_active = TRUE
    /\ tts_closed = FALSE
    /\ is_bot_speaking = FALSE
    /\ pending_agent_text \in {<<>>, <<<<"1">>>>}
    /\ \E n \in 0..MaxCancelTasks :
          /\ tasks \in [1..n -> SupersededTasks \cup LatestTasks]
          /\ \A k \in 1..n : IF k < n THEN tasks[k] \in SupersededTasks
                                      ELSE tasks[k] \in LatestTasks
          /\ response_task = n
    /\ voice_recent = FALSE
    /\ start_co = DoneCo
    /\ llm_conversation = <<>>
    /\ utterances = <<>>
    /\ inbound_audio = <<>>
    /\ outbound_segments = <<>>
    /\ emit_started_at = <<>>
    /\ saved = NothingSaved
    /\ aligned_out = NotBuilt
    /\ api_reachable = TRUE
    /\ InitTime

\* what a cancellation request leaves in cancel_obs
Observed(caller, ts_before, ts_after) ==
    [calls  |-> cancel_obs.calls + 1,
     caller |-> caller,
     before |-> IF cancel_obs.calls = 0 THEN ts_before ELSE cancel_obs.before,
     first  |-> IF cancel_obs.calls = 0 THEN ts_after ELSE cancel_obs.first]

\* lines 89-90 of on_transcript
SupersedeCancel ==
    /\ cancel_obs.calls < MaxCancelCalls
    /\ tasks' = CancelTask(tasks, response_task)
    /\ cancel_obs' = Observed("on_transcript", tasks, tasks')
    /\ UNCHANGED <<handler_pc, stt_active, tts_closed, is_bot_speaking,
                   pending_agent_text, response_task, voice_recent, start_co,
                   llm_conversation, utterances, inbound_audio,
                   outbound_segments, emit_started_at, saved, aligned_out,
                   api_reachable, silent_for, sleep_left, task_age,
                   since_trigger, now, utter_times, interims_heard,
                   active_call, handlers, managers, app_state,
                   waiter, sent_chunks>>

\* lines 195-196 of stop()
StopCancel ==
    /\ cancel_obs.calls < MaxCancelCalls
    /\ tasks' = CancelTask(tasks, response_task)
    /\ cancel_obs' = Observed("stop", tasks, tasks')
    /\ UNCHANGED <<handler_pc, stt_active, tts_closed, is_bot_speaking,
                   pending_agent_text, response_task, voice_recent, start_co,
                   llm_conversation, utterances, inbound_audio,
                   outbound_segments, emit_started_at, saved, aligned_out,
                   api_reachable, silent_for, sleep_left, task_age,
                   since_trigger, now, utter_times, interims_heard,
                   active_call, handlers, managers, app_state,
                   waiter, sent_chunks>>

NextCancel == SupersedeCancel \/ StopCancel

SpecCancel == InitCancel /\ [][NextCancel]_vars

-----------------------------------------------------------------------------
(* The recorder alone: _build_aligned_outbound applied to segments and a    *)
(* total length drawn from bounded sets.  add_outbound_audio validates      *)
(* nothing, so offsets of either parity, negative or past the end occur.    *)

MaxSegments == 2

AlignOffsets == (0 - 2)..(MaxAlignLen + 1)

AlignPayloads == {<<>>, <<11, 12, 13>>, <<21, 22>>, <<31, 32, 33, 34>>}

InitAlign ==
    /\ handler_pc = "connected"
    /\ stt_active = FALSE
    /\ tts_closed = FALSE
    /\ is_bot_speaking = FALSE
    /\ pending_agent_text = <<>>
    /\ response_task = 0
    /\ voice_recent = FALSE
    /\ start_co = [DoneCo EXCEPT !.pc = "new"]
    /\ tasks = <<>>
    /\ llm_conversation = <<>>
    /\ utterances = <<>>
    /\ inbound_audio \in {Silence(n) : n \in 0..MaxAlignLen}
    /\ outbound_segments = <<>>
    /\ emit_started_at = <<>>
    /\ saved = NothingSaved
    /\ aligned_out = NotBuilt
    /\ api_reachable = TRUE
    /\ InitTime

\* CallRecording.add_outbound_audio(audio_bytes, start_position), until the
\* call ends and the aligned track is built
AlignRecord(audio_bytes, start_position) ==
    /\ ~aligned_out.built
    /\ Len(outbound_segments) < MaxSegments
    /\ outbound_segments' =
          AddOutboundAudio(outbound_segments, audio_bytes, start_position)
    /\ UNCHANGED <<schedVars, timeVars, inbound_audio, saved, aligned_out>>

\* line 128 of save(): _build_aligned_outbound(len(self.inbound_audio))
AlignBuild ==
    /\ ~aligned_out.built
    /\ outbound_segments # <<>>
    /\ aligned_out' =
          [built |-> TRUE,
           total_length |-> Len(inbound_audio),
           segments |-> outbound_segments,
           result |-> BuildAlignedOutbound(outbound_segments, Len(inbound_audio))]
    /\ UNCHANGED <<schedVars, timeVars, inbound_audio, outbound_segments,
                   saved>>

NextAlign ==
    \/ \E audio_bytes \in AlignPayloads, start_position \in AlignOffsets :
          AlignRecord(audio_bytes, start_position)
    \/ AlignBuild

SpecAlign == InitAlign /\ [][NextAlign]_vars

-----------------------------------------------------------------------------
(* _mix_audio alone: line 135 of save() applied to two tracks drawn from     *)
(* bounded sets.  inbound_audio holds the first track, aligned_out.result    *)
(* the second, and saved.combined_wav receives the mix.                      *)

\* 16-bit samples: both ends of the range, zero and its neighbours
MixSamples == {0 - 32768, 0 - 1, 0, 1, 32767}

RECURSIVE SampleSeqs(_)
SampleSeqs(n) ==
    IF n = 0 THEN {<<>>}
    ELSE LET shorter == SampleSeqs(n - 1)
         IN  shorter \cup {Append(ss, v) : ss \in {s \in shorter : Len(s) = n - 1},
                                            v \in MixSamples}

MixTracks == {SamplesToBytes(ss) : ss \in SampleSeqs(MaxMixSamples)}

InitMix ==
    /\ handler_pc = "stopping"
    /\ stt_active = FALSE
    /\ tts_closed = TRUE
    /\ is_bot_speaking = FALSE
    /\ pending_agent_text = <<>>
    /\ response_task = 0
    /\ voice_recent = FALSE
    /\ start_co = DoneCo
    /\ tasks = <<>>
    /\ llm_conversation = <<>>
    /\ utterances = <<>>
    /\ inbound_audio \in MixTracks
    /\ outbound_segments = <<>>
    /\ emit_started_at = <<>>
    /\ saved = NothingSaved
    /\ \E track \in MixTracks :
          aligned_out = [built |-> TRUE, total_length |-> Len(track),
                         segments |-> <<>>, result |-> track]
    /\ api_reachable = TRUE
    /\ InitTime

\* lines 135-136 of save(): combined = _mix_audio(inbound, aligned), written
\* to combined.wav
MixTracksStep ==
    /\ saved = NothingSaved
    /\ saved' = [NothingSaved EXCEPT
                    !.files = {"combined.wav"},
                    !.combined_wav = MixAudio(inbound_audio, aligned_out.result)]
    /\ UNCHANGED <<schedVars, timeVars, inbound_audio, outbound_segments,
                   aligned_out>>

NextMix == MixTracksStep

SpecMix == InitMix /\ [][NextMix]_vars

-----------------------------------------------------------------------------
(* _mix_audio on byte sequences of either parity: the tracks of SpecMix and  *)
(* each of them followed by one more byte.                                   *)

OddTails == {1, 255}

MixByteTracks == MixTracks \cup {Append(track, b) : track \in MixTracks, b \in OddTails}

InitMixBytes ==
    /\ handler_pc = "stopping"
    /\ stt_active = FALSE
    /\ tts_closed = TRUE
    /\ is_bot_speaking = FALSE
    /\ pending_agent_text = <<>>
    /\ response_task = 0
    /\ voice_recent = FALSE
    /\ start_co = DoneCo
    /\ tasks = <<>>
    /\ llm_conversation = <<>>
    /\ utterances = <<>>
    /\ inbound_audio \in MixByteTracks
    /\ outbound_segments = <<>>
    /\ emit_started_at = <<>>
    /\ saved = NothingSaved
    /\ \E track \in MixByteTracks :
          aligned_out = [built |-> TRUE, total_length |-> Len(track),
                         segments |-> <<>>, result |-> track]
    /\ api_reachable = TRUE
    /\ InitTime

SpecMixBytes == InitMixBytes /\ [][NextMix]_vars

-----------------------------------------------------------------------------
(* CallRecording.save alone, called from stop() after the services are       *)
(* closed, on an inbound timeline and segments drawn from bounded sets.      *)
(* save() writes its artifacts one after the other with no try around any    *)
(* of them: a write that raises (OSError) ends save() there, and the         *)
(* exception leaves stop(), whose try begins after the call of save().       *)

\* the artifacts save() writes, in the order it writes them
SaveOrder(inbound, segments) ==
    <<"transcript.json", "transcript.txt">>
    \o (IF inbound # <<>> THEN <<"inbound.wav">> ELSE <<>>)
    \o (IF segments # <<>>
        THEN <<"outbound.wav", "outbound_raw.wav", "combined.wav">>
        ELSE <<>>)

\* what is on disk when the first n artifacts have been written
SaveFilesUntil(utts, inbound, segments, n) ==
    LET full    == SaveFiles(utts, inbound, segments)
        order   == SaveOrder(inbound, segments)
        written == {order[k] : k \in 1..Min2(n, Len(order))}
    IN  [files            |-> written,
         transcript_json  |-> IF "transcript.json" \in written
                              THEN full.transcript_json ELSE <<>>,
         inbound_wav      |-> IF "inbound.wav" \in written
                              THEN full.inbound_wav ELSE <<>>,
         outbound_wav     |-> IF "outbound.wav" \in written
                              THEN full.outbound_wav ELSE <<>>,
         outbound_raw_wav |-> IF "outbound_raw.wav" \in written
                              THEN full.outbound_raw_wav ELSE <<>>,
         combined_wav     |-> IF "combined.wav" \in written
                              THEN full.combined_wav ELSE <<>>]

SaveInbounds == {<<>>, Silence(4)}

SaveOffsets == {0, 2}

RECURSIVE SegmentLists(_)
SegmentLists(n) ==
    IF n = 0 THEN {<<>>}
    ELSE LET shorter == SegmentLists(n - 1)
         IN  shorter \cup
             {Append(segs, OutboundSegment(pos, audio)) :
                 segs \in {s \in shorter : Len(s) = n - 1},
                 pos \in SaveOffsets, audio \in AlignPayloads}

InitSave ==
    /\ handler_pc = "stopping"
    /\ stt_active = FALSE
    /\ tts_closed = TRUE
    /\ is_bot_speaking = FALSE
    /\ pending_agent_text = <<>>
    /\ response_task = 0
    /\ voice_recent = FALSE
    /\ start_co = DoneCo
    /\ tasks = <<>>
    /\ llm_conversation = <<>>
    /\ utterances \in {<<>>, <<Utterance("patient", ReplyText(TRUE))>>}
    /\ inbound_audio \in SaveInbounds
    /\ outbound_segments \in SegmentLists(MaxSegments)
    /\ emit_started_at = <<>>
    /\ saved = NothingSaved
    /\ aligned_out = NotBuilt
    /\ api_reachable = TRUE
    /\ InitTime

\* lines 203-221 of stop(): save() returns, the analysis runs inside its
\* try, and stop() returns
SaveCompletes ==
    /\ handler_pc = "stopping"
    /\ saved' = SaveFiles(utterances, inbound_audio, outbound_segments)
    /\ handler_pc' = "stopped"
    /\ UNCHANGED <<stt_active, tts_closed, is_bot_speaking, pending_agent_text,
                   response_task, voice_recent, start_co, tasks,
                   llm_conversation, utterances, inbound_audio,
                   outbound_segments, emit_started_at, aligned_out,
                   api_reachable, timeVars>>

\* the write of the k-th artifact raises: the artifacts before it are on
\* disk, save() and stop() end with the exception
SaveRaises(k) ==
    /\ handler_pc = "stopping"
    /\ saved' = SaveFilesUntil(utterances, inbound_audio, outbound_segments, k - 1)
    /\ handler_pc' = "stop_raised"
    /\ UNCHANGED <<stt_active, tts_closed, is_bot_speaking, pending_agent_text,
                   response_task, voice_recent, start_co, tasks,
                   llm_conversation, utterances, inbound_audio,
                   outbound_segments, emit_started_at, aligned_out,
                   api_reachable, timeVars>>

NextSave ==
    \/ SaveCompletes
    \/ \E k \in 1..Len(SaveOrder(inbound_audio, outbound_segments)) : SaveRaises(k)

SpecSave == InitSave /\ [][NextSave]_vars

-----------------------------------------------------------------------------
(* add_inbound_audio alone, with the clock: last_voice_activity is           *)
(* now - silent_for.  It is 0 after __init__ (line 57), before every value   *)
(* of the clock.  rms_raises stands for audioop.rms raising inside the try   *)
(* of lines 140-145.                                                         *)

\* mu-law frames: silence, two samples with an rms of exactly
\* SILENCE_THRESHOLD, two samples with an rms one above it, full scale
VoiceFrames == {<<255>>, <<222, 224>>, <<218, 241>>, <<0>>}

\* a frame whose energy reaches the threshold counts as voice
SilentAfterFrame_AtThreshold(pcm_bytes, rms_raises, silent) ==
    IF ~rms_raises /\ RmsExceeds(pcm_bytes, SILENCE_THRESHOLD - 1)
    THEN 0 ELSE silent

\* lines 140-145: the time since last_voice_activity after the frame
SilentAfterFrame(pcm_bytes, rms_raises, silent) ==
    IF ~rms_raises /\ RmsExceeds(pcm_bytes, SILENCE_THRESHOLD)
    THEN 0 ELSE silent

InitVoice ==
    /\ handler_pc = "loop"
    /\ stt_active = TRUE
    /\ tts_closed = FALSE
    /\ is_bot_speaking = FALSE
    /\ pending_agent_text = <<>>
    /\ response_task = 0
    /\ voice_recent = FALSE
    /\ start_co = DoneCo
    /\ tasks = <<>>
    /\ llm_conversation = <<>>
    /\ utterances = <<>>
    /\ inbound_audio = <<>>
    /\ outbound_segments = <<>>
    /\ emit_started_at = <<>>
    /\ saved = NothingSaved
    /\ aligned_out = NotBuilt
    /\ api_reachable = TRUE
    /\ silent_for = 1
    /\ sleep_left = <<0>>
    /\ task_age = <<>>
    /\ since_trigger = RESPONSE_DELAY
    /\ now = 1
    /\ utter_times = <<>>
    /\ interims_heard = 0
    /\ cancel_obs = [calls |-> 0, caller |-> "none", before |-> <<>>, first |-> <<>>]
    /\ active_call = NoCall
    /\ handlers = [c \in Connections |-> Unconnected]
    /\ managers = <<>>
    /\ app_state = NoStatus
    /\ waiter = NotWaiting
    /\ sent_chunks = <<>>

\* ConversationManager.add_inbound_audio(mulaw_bytes), lines 134-145
ObserveFrame(mulaw_bytes, rms_raises) ==
    LET pcm_bytes == Ulaw2Lin(mulaw_bytes) IN
    /\ Len(inbound_audio) + Len(pcm_bytes) <= 4 * MaxVoiceFrames
    /\ inbound_audio' = inbound_audio \o pcm_bytes
    /\ silent_for' = SilentAfterFrame(pcm_bytes, rms_raises, silent_for)
    /\ voice_recent' = (silent_for' < VOICE_ACTIVITY_TIMEOUT)
    /\ UNCHANGED <<handler_pc, stt_active, tts_closed, is_bot_speaking,
                   pending_agent_text, response_task, start_co, tasks,
                   llm_conversation, utterances, outbound_segments,
                   emit_started_at, saved, aligned_out, api_reachable,
                   sleep_left, task_age, since_trigger, now, utter_times,
                   interims_heard, cancel_obs, active_call,
                   handlers, managers, app_state,
                   waiter, sent_chunks>>

\* a tenth of a second passes
VoiceTick ==
    /\ now < MaxVoiceClock
    /\ now' = now + 1
    /\ silent_for' = silent_for + 1
    /\ voice_recent' = (silent_for' < VOICE_ACTIVITY_TIMEOUT)
    /\ UNCHANGED <<handler_pc, stt_active, tts_closed, is_bot_speaking,
                   pending_agent_text, response_task, start_co, tasks,
                   llm_conversation, utterances, inbound_audio,
                   outbound_segments, emit_started_at, saved, aligned_out,
                   api_reachable, sleep_left, task_age, since_trigger,
                   utter_times, interims_heard, cancel_obs, active_call,
                   handlers, managers, app_state,
                   waiter, sent_chunks>>

NextVoice ==
    \/ \E frame \in VoiceFrames, rms_raises \in BOOLEAN :
          ObserveFrame(frame, rms_raises)
    \/ VoiceTick

SpecVoice == InitVoice /\ [][NextVoice]_vars

-----------------------------------------------------------------------------
(* Several connections to /media-stream.  Every handler works on the one     *)
(* module-level active_call.  A handler is suspended, and the others run,    *)
(* while it awaits conversation.stop() inside cleanup() and while it awaits  *)
(* conversation.start().  Each connection sends one start event, then media  *)
(* events.  A ConversationManager is kept as what reached it.                *)

\* everything that belongs to the single call of the other specifications
callVars == <<handler_pc, stt_active, tts_closed, is_bot_speaking,
              pending_agent_text, response_task, voice_recent, start_co, tasks,
              llm_conversation, utterances, inbound_audio, outbound_segments,
              emit_started_at, saved, aligned_out, api_reachable, silent_for,
              sleep_left, task_age, since_trigger, now, utter_times,
              interims_heard, cancel_obs, app_state, waiter,
              sent_chunks>>

\* greeting_at: the inbound frames the manager held when line 161 was
\* reached for its greeting (-1 before that); each frame carries audio, so
\* the byte offset of the greeting is 0 exactly when greeting_at is 0
NewManager(c) ==
    [owner |-> c, frames_from |-> <<>>, stopped_by |-> {}, greeting_at |-> -1]

\* CallState.cleanup() up to its first suspension, called by the handler of
\* connection c: stop() of the current conversation is entered, or, when
\* there is none, the three fields are reset without a suspension
CleanupEnters(c, suspended_pc, done_pc, websocket_after) ==
    IF active_call.conversation # 0
    THEN /\ managers' = [managers EXCEPT ![active_call.conversation].stopped_by
                                            = @ \cup {c}]
         /\ handlers' = [handlers EXCEPT ![c].pc = suspended_pc]
         /\ UNCHANGED active_call
    ELSE /\ active_call' = [NoCall EXCEPT !.websocket = websocket_after]
         /\ handlers' = [handlers EXCEPT ![c].pc = done_pc]
         /\ UNCHANGED managers

\* lines 100-102: accept(), cleanup(), active_call.websocket = websocket
Accept(c) ==
    /\ handlers[c].pc = "unconnected"
    /\ CleanupEnters(c, "accept_cleanup", "loop", c)
    /\ UNCHANGED callVars

\* stop() has returned to cleanup() (lines 68-70), called at line 101
AcceptCleanupReturns(c) ==
    /\ handlers[c].pc = "accept_cleanup"
    /\ active_call' = [NoCall EXCEPT !.websocket = c]
    /\ handlers' = [handlers EXCEPT ![c].pc = "loop"]
    /\ UNCHANGED <<managers, callVars>>

\* the start event, lines 109-126, up to the suspension in start()
StartEvent(c) ==
    /\ handlers[c].pc = "loop"
    /\ ~handlers[c].started
    /\ managers' = Append(managers, NewManager(c))
    /\ active_call' = [active_call EXCEPT !.stream_sid = c,
                                          !.conversation = Len(managers) + 1]
    /\ handlers' = [handlers EXCEPT ![c] = [pc |-> "starting", started |-> TRUE]]
    /\ UNCHANGED callVars

\* inside start(), awaited at line 125: the greeting was synthesised and
\* line 161 takes its offset before the send loop
GreetingEmits(c) ==
    /\ handlers[c].pc = "starting"
    /\ \E m \in 1..Len(managers) :
          /\ managers[m].owner = c
          /\ managers[m].greeting_at = -1
          /\ managers' = [managers EXCEPT
                             ![m].greeting_at = Len(managers[m].frames_from)]
    /\ UNCHANGED <<active_call, handlers, callVars>>

\* conversation.start() has returned
StartReturns(c) ==
    /\ handlers[c].pc = "starting"
    /\ handlers' = [handlers EXCEPT ![c].pc = "loop"]
    /\ UNCHANGED <<active_call, managers, callVars>>

\* a media event, lines 128-133
MediaEvent(c) ==
    /\ handlers[c].pc = "loop"
    /\ handlers[c].started
    /\ IF active_call.conversation # 0
       THEN /\ Len(managers[active_call.conversation].frames_from)
                  < MaxSessionFrames
            /\ managers' = [managers EXCEPT
                               ![active_call.conversation].frames_from
                                   = Append(@, c)]
       ELSE UNCHANGED managers
    /\ UNCHANGED <<active_call, handlers, callVars>>

\* the connection closes: lines 138-142, cleanup() in the finally clause
Disconnect(c) ==
    /\ handlers[c].pc = "loop"
    /\ CleanupEnters(c, "close_cleanup", "closed", 0)
    /\ UNCHANGED callVars

\* stop() has returned to cleanup() (lines 68-70), called at line 141
CloseCleanupReturns(c) ==
    /\ handlers[c].pc = "close_cleanup"
    /\ active_call' = NoCall
    /\ handlers' = [handlers EXCEPT ![c].pc = "closed"]
    /\ UNCHANGED <<managers, callVars>>

NextSessions ==
    \/ \E c \in Connections : Accept(c)
    \/ \E c \in Connections : AcceptCleanupReturns(c)
    \/ \E c \in Connections : StartEvent(c)
    \/ \E c \in Connections : GreetingEmits(c)
    \/ \E c \in Connections : StartReturns(c)
    \/ \E c \in Connections : MediaEvent(c)
    \/ \E c \in Connections : Disconnect(c)
    \/ \E c \in Connections : CloseCleanupReturns(c)

\* no connection yet; the single call's variables keep their first values
InitSessions == Init /\ api_reachable

SpecSessions == InitSessions /\ [][NextSessions]_vars

-----------------------------------------------------------------------------
(* The send loop alone, with the clock in milliseconds: the opening line    *)
(* has been generated, tts.synthesize returns a payload of a length drawn   *)
(* from a bounded set, and _send_audio_chunks hands it over chunk by chunk, *)
(* sleeping CHUNK_DURATION after each.  The sender takes no time and does   *)
(* not fail; now is 0 when the loop is entered.                             *)

\* payloads of 1..MaxPaceUnits half chunks
PacePayloads ==
    {[k \in 1..(n * (CHUNK_SIZE \div 2)) |-> 3] : n \in 1..MaxPaceUnits}

InitPace ==
    /\ handler_pc = "starting"
    /\ stt_active = TRUE
    /\ tts_closed = FALSE
    /\ is_bot_speaking = TRUE
    /\ pending_agent_text = <<>>
    /\ response_task = 0
    /\ voice_recent = FALSE
    /\ start_co = [DoneCo EXCEPT !.pc = "synth"]
    /\ tasks = <<>>
    /\ llm_conversation = GenerateResponse(<<>>, NoText, TRUE)
    /\ utterances = <<Utterance("patient", ReplyText(TRUE))>>
    /\ inbound_audio = <<>>
    /\ outbound_segments = <<>>
    /\ emit_started_at = <<>>
    /\ saved = NothingSaved
    /\ aligned_out = NotBuilt
    /\ api_reachable = TRUE
    /\ InitTime

\* tts.synthesize returns: lines 158-164 and the first pass of lines 186-189
PaceSynthReturned(pcm_audio) ==
    /\ start_co.pc = "synth"
    /\ SynthReturned(0, pcm_audio, TRUE)
    /\ UNCHANGED <<stt_active, tts_closed, pending_agent_text, voice_recent,
                   llm_conversation, utterances, inbound_audio, saved,
                   aligned_out, api_reachable, timeVars, active_call,
                   handlers, managers, app_state,
                   waiter, sent_chunks>>

\* asyncio.sleep(CHUNK_DURATION) of line 190 ends: the next chunk, or the end
\* of the loop
PaceSleepEnds ==
    /\ start_co.pc = "pace"
    /\ PaceEnded(0, TRUE)
    /\ now' = now + CHUNK_DURATION
    /\ UNCHANGED <<stt_active, tts_closed, pending_agent_text, voice_recent,
                   llm_conversation, utterances, inbound_audio, saved,
                   aligned_out, api_reachable, silent_for, sleep_left,
                   task_age, since_trigger, utter_times, interims_heard,
                   cancel_obs, active_call, handlers, managers, app_state,
                   waiter, sent_chunks>>

NextPace ==
    \/ \E pcm_audio \in PacePayloads : PaceSynthReturned(pcm_audio)
    \/ PaceSleepEnds

SpecPace == InitPace /\ [][NextPace]_vars

-----------------------------------------------------------------------------
(* The machine-readable transcript: save() lines 96-108 dump                 *)
(* [asdict(u) for u in self.utterances] with json.dump, stop() lines 206-210 *)
(* read the file back with json.load.  A text is a sequence of characters;   *)
(* "U+00E9" stands for one character outside ASCII.  A JSON string is the    *)
(* sequence of the characters written to the file, a JSON number the         *)
(* sequence of its digits.  Timestamps are counted in clock ticks.           *)

\* every character written as it is
EscapeChar_Raw(c) == <<c>>

\* json.dumps of one character of a str, ensure_ascii being left at True
EscapeChar(c) ==
    IF c = "\"" THEN <<"\\", "\"">>
    ELSE IF c = "\\" THEN <<"\\", "\\">>
    ELSE IF c = "\n" THEN <<"\\", "n">>
    ELSE IF c = "U+00E9" THEN <<"\\", "u", "0", "0", "e", "9">>
    ELSE <<c>>

RECURSIVE EscapeChars(_)
EscapeChars(text) ==
    IF text = <<>> THEN <<>> ELSE EscapeChar(text[1]) \o EscapeChars(Tail(text))

\* json.dumps(text)
JsonString(text) == <<"\"">> \o EscapeChars(text) \o <<"\"">>

RECURSIVE UnescapeChars(_)
\* the scanner of json.loads inside a string, up to the closing quote
UnescapeChars(chars) ==
    IF chars = <<>> \/ chars[1] = "\"" THEN <<>>
    ELSE IF chars[1] # "\\"
         THEN <<chars[1]>> \o UnescapeChars(Tail(chars))
    ELSE IF Len(chars) < 2 THEN <<>>
    ELSE IF chars[2] = "n"
         THEN <<"\n">> \o UnescapeChars(SubSeq(chars, 3, Len(chars)))
    ELSE IF chars[2] = "u" /\ Len(chars) >= 6
         THEN (IF SubSeq(chars, 3, 6) = <<"0", "0", "e", "9">>
               THEN <<"U+00E9">> ELSE <<"?">>)
              \o UnescapeChars(SubSeq(chars, 7, Len(chars)))
    ELSE <<chars[2]>> \o UnescapeChars(SubSeq(chars, 3, Len(chars)))

\* json.loads of a JSON string
ParseJsonString(chars) ==
    IF chars = <<>> THEN <<>> ELSE UnescapeChars(Tail(chars))

Digit(d) ==
    IF d = 0 THEN "0" ELSE IF d = 1 THEN "1" ELSE IF d = 2 THEN "2"
    ELSE IF d = 3 THEN "3" ELSE IF d = 4 THEN "4" ELSE IF d = 5 THEN "5"
    ELSE IF d = 6 THEN "6" ELSE IF d = 7 THEN "7" ELSE IF d = 8 THEN "8"
    ELSE "9"

DigitValue(c) == CHOOSE d \in 0..9 : Digit(d) = c

RECURSIVE JsonNumber(_)
\* the digits json.dumps writes for a number
JsonNumber(n) ==
    IF n < 10 THEN <<Digit(n)>> ELSE Append(JsonNumber(n \div 10), Digit(n % 10))

RECURSIVE ParseJsonNumber(_)
\* the number json.loads reads from digits
ParseJsonNumber(digits) ==
    IF Len(digits) = 1 THEN DigitValue(digits[1])
    ELSE 10 * ParseJsonNumber(SubSeq(digits, 1, Len(digits) - 1))
         + DigitValue(digits[Len(digits)])

\* json.dump of [asdict(u) for u in self.utterances]
DumpUtterances(utts, stamps) ==
    [k \in 1..Len(utts) |->
        [speaker   |-> JsonString(<<utts[k].speaker>>),
         text      |-> JsonString(utts[k].text),
         timestamp |-> JsonNumber(stamps[k])]]

\* json.load(f)["utterances"]
LoadUtterances(dumped) ==
    [k \in 1..Len(dumped) |->
        [speaker   |-> ParseJsonString(dumped[k].speaker)[1],
         text      |-> ParseJsonString(dumped[k].text),
         timestamp |-> ParseJsonNumber(dumped[k].timestamp)]]

\* texts with the characters json escapes, next to the letters the escapes
\* are written with
SavedTexts ==
    {<<>>, <<"n">>, <<"\\", "n">>, <<"\n", "u">>, <<"\"", "U+00E9">>,
     <<"U+00E9", "\\", "\"">>}

SavedStamps == {0, 7, 120}

RECURSIVE Ledgers(_)
\* ledgers of up to n utterances with stamps that do not decrease
Ledgers(n) ==
    IF n = 0 THEN {[utts |-> <<>>, stamps |-> <<>>]}
    ELSE LET shorter == Ledgers(n - 1)
         IN  shorter \cup
             UNION {{[utts   |-> Append(l.utts, Utterance(speaker, text)),
                      stamps |-> Append(l.stamps, stamp)] :
                        speaker \in {"agent", "patient"},
                        text \in SavedTexts,
                        stamp \in {s \in SavedStamps :
                                      \A k \in 1..(n - 1) : l.stamps[k] <= s}} :
                    l \in {s \in shorter : Len(s.utts) = n - 1}}

InitTranscript ==
    /\ handler_pc = "stopping"
    /\ stt_active = FALSE
    /\ tts_closed = TRUE
    /\ is_bot_speaking = FALSE
    /\ pending_agent_text = <<>>
    /\ response_task = 0
    /\ voice_recent = FALSE
    /\ start_co = DoneCo
    /\ tasks = <<>>
    /\ llm_conversation = <<>>
    /\ \E l \in Ledgers(MaxSavedUtterances) :
          /\ utterances = l.utts
          /\ utter_times = l.stamps
    /\ inbound_audio = <<>>
    /\ outbound_segments = <<>>
    /\ emit_started_at = <<>>
    /\ saved = NothingSaved
    /\ aligned_out = NotBuilt
    /\ api_reachable = TRUE
    /\ silent_for = VOICE_ACTIVITY_TIMEOUT
    /\ sleep_left = <<0>>
    /\ task_age = <<>>
    /\ since_trigger = RESPONSE_DELAY
    /\ now = 120
    /\ interims_heard = 0
    /\ cancel_obs = [calls |-> 0, caller |-> "none", before |-> <<>>, first |-> <<>>]
    /\ active_call = NoCall
    /\ handlers = [c \in Connections |-> Unconnected]
    /\ managers = <<>>
    /\ app_state = NoStatus
    /\ waiter = NotWaiting
    /\ sent_chunks = <<>>

\* save() lines 96-108: transcript.json is written
ExportTranscript ==
    /\ saved = NothingSaved
    /\ saved' = [NothingSaved EXCEPT
                    !.files = {"transcript.json"},
                    !.transcript_json = DumpUtterances(utterances, utter_times)]
    /\ UNCHANGED <<schedVars, timeVars, inbound_audio, outbound_segments,
                   aligned_out>>

NextTranscript == ExportTranscript

SpecTranscript == InitTranscript /\ [][NextTranscript]_vars

-----------------------------------------------------------------------------
(* The command-line driver waiting for a call: main.wait_for_call_complete  *)
(* polls /call-status of the server, whose app_state the media_stream       *)
(* handler writes.  Call ids are numbered in the order the calls start, 0   *)
(* is None; elapsed is time.time() - start_time in seconds, taken to grow   *)
(* by the sleep of each iteration.                                          *)

\* everything but app_state and waiter
sessionVars == <<handler_pc, stt_active, tts_closed, is_bot_speaking,
                 pending_agent_text, response_task, voice_recent, start_co,
                 tasks, llm_conversation, utterances, inbound_audio,
                 outbound_segments, emit_started_at, saved, aligned_out,
                 api_reachable, silent_for, sleep_left, task_age,
                 since_trigger, now, utter_times, interims_heard, cancel_obs,
                 active_call, handlers, managers, sent_chunks>>

\* get_call_status(): the JSON of /call-status, or {"in_progress": False}
\* when the request raised; .get("last_call_id") of that is None
GetCallStatus(ok) ==
    IF ok THEN [in_progress |-> app_state.call_in_progress,
                last_call_id |-> app_state.last_call_id]
          ELSE [in_progress |-> FALSE, last_call_id |-> 0]

WaitTimeouts == {POLL_INTERVAL * k : k \in 1..MaxWaitPolls}

\* media_stream, event "start": a call with a fresh id is in progress
StreamStarts ==
    /\ ~app_state.call_in_progress
    /\ app_state.last_call_id < MaxWaitCalls
    /\ app_state' = [last_call_id |-> app_state.last_call_id + 1,
                     call_in_progress |-> TRUE]
    /\ UNCHANGED <<sessionVars, waiter>>

\* media_stream, finally: the call is over
StreamEnds ==
    /\ app_state.call_in_progress
    /\ app_state' = [app_state EXCEPT !.call_in_progress = FALSE]
    /\ UNCHANGED <<sessionVars, waiter>>

\* run_single_call reads the id of the last call, and wait_for_call_complete
\* is entered
BeginWait(ok, timeout) ==
    /\ waiter.pc = "idle"
    /\ waiter' = [NotWaiting EXCEPT
                    !.pc = "polling",
                    !.initial_call_id = GetCallStatus(ok).last_call_id,
                    !.timeout = timeout,
                    !.polls_failed = IF ok THEN 0 ELSE 1]
    /\ UNCHANGED <<sessionVars, app_state>>

\* one iteration of the while loop: poll, return the id or sleep
Poll(ok) ==
    /\ waiter.pc = "polling"
    /\ waiter.elapsed < waiter.timeout
    /\ LET status == GetCallStatus(ok)
           seen_new_call ==
               \/ waiter.seen_new_call
               \/ /\ status.last_call_id # 0
                  /\ status.last_call_id # waiter.initial_call_id
           failed == waiter.polls_failed + (IF ok THEN 0 ELSE 1)
       IN  waiter' =
             IF seen_new_call /\ ~status.in_progress
             THEN [waiter EXCEPT !.pc = "returned",
                                 !.seen_new_call = seen_new_call,
                                 !.returned = status.last_call_id,
                                 !.polls_failed = failed]
             ELSE [waiter EXCEPT !.seen_new_call = seen_new_call,
                                 !.elapsed = @ + POLL_INTERVAL,
                                 !.polls_failed = failed]
    /\ UNCHANGED <<sessionVars, app_state>>

\* the loop condition fails: return None
WaitTimesOut ==
    /\ waiter.pc = "polling"
    /\ waiter.elapsed >= waiter.timeout
    /\ waiter' = [waiter EXCEPT !.pc = "timed_out", !.returned = 0]
    /\ UNCHANGED <<sessionVars, app_state>>

NextWait ==
    \/ StreamStarts
    \/ StreamEnds
    \/ \E ok \in BOOLEAN, timeout \in WaitTimeouts : BeginWait(ok, timeout)
    \/ \E ok \in BOOLEAN : Poll(ok)
    \/ WaitTimesOut

InitWait == Init /\ api_reachable

SpecWait == InitWait /\ [][NextWait]_vars

-----------------------------------------------------------------------------
(* The send loop alone, with what the audio sender is given: payloads of    *)
(* every length around the chunk boundaries, their bytes all different      *)
(* within a chunk, sent to a sender that accepts them.                      *)

ChunkLengths ==
    {u * (CHUNK_SIZE \div 4) + d : u \in 0..MaxChunkQuarters, d \in {0, 1}}

ChunkPayloads == {[k \in 1..n |-> k % 256] : n \in ChunkLengths}

\* a slice without its upper end
Chunk_Unbounded(pcm_audio, i) == SubSeq(pcm_audio, i + 1, Len(pcm_audio))

\* line 187: pcm_audio[i:i + CHUNK_SIZE]
Chunk(pcm_audio, i) ==
    SubSeq(pcm_audio, i + 1, Min2(i + CHUNK_SIZE, Len(pcm_audio)))

\* line 189: audio_sender(chunk) is called when the step leaves the
\* coroutine suspended in the send loop, with the chunk at its offset i
SenderCalled ==
    sent_chunks' = IF start_co'.pc = "pace"
                   THEN Append(sent_chunks,
                               Chunk(start_co'.pcm_audio, start_co'.i))
                   ELSE sent_chunks

\* tts.synthesize returns: lines 158-164 and the first pass of lines 186-189
ChunkSynthReturned(pcm_audio) ==
    /\ start_co.pc = "synth"
    /\ SynthReturned(0, pcm_audio, TRUE)
    /\ SenderCalled
    /\ UNCHANGED <<stt_active, tts_closed, pending_agent_text, voice_recent,
                   llm_conversation, utterances, inbound_audio, saved,
                   aligned_out, api_reachable, silent_for, sleep_left,
                   task_age, since_trigger, now, utter_times, interims_heard,
                   cancel_obs, active_call, handlers, managers, app_state,
                   waiter>>

\* the sleep of line 190 ends: the next pass of the loop, or its end
ChunkSleepEnds ==
    /\ start_co.pc = "pace"
    /\ PaceEnded(0, TRUE)
    /\ SenderCalled
    /\ UNCHANGED <<stt_active, tts_closed, pending_agent_text, voice_recent,
                   llm_conversation, utterances, inbound_audio, saved,
                   aligned_out, api_reachable, silent_for, sleep_left,
                   task_age, since_trigger, now, utter_times, interims_heard,
                   cancel_obs, active_call, handlers, managers, app_state,
                   waiter>>

NextChunks ==
    \/ \E pcm_audio \in ChunkPayloads : ChunkSynthReturned(pcm_audio)
    \/ ChunkSleepEnds

InitChunks == InitPace

SpecChunks == InitChunks /\ [][NextChunks]_vars

-----------------------------------------------------------------------------
(* What the properties read off the state *)

NumPatient ==
    Cardinality({k \in 1..Len(utterances) : utterances[k].speaker = "patient"})

RECURSIVE SplitAtPatient(_, _, _)
SplitAtPatient(utts, groups, current) ==
    IF utts = <<>> THEN Append(groups, current)
    ELSE IF utts[1].speaker = "patient"
         THEN SplitAtPatient(Tail(utts), Append(groups, current), <<>>)
         ELSE SplitAtPatient(Tail(utts), groups, Append(current, utts[1].text))

\* The texts of the final transcripts in arrival order, grouped by the
\* replies between them: group 1 arrived before the greeting was generated,
\* group k + 1 between the k-th and the next generate_response invocation
\* (each invocation is followed at once by its 'patient' utterance).
ArrivedGroups == SplitAtPatient(utterances, <<>>, <<>>)

\* the remote texts generate_response was invoked with, in order
TextsGenerated ==
    LET users == SelectSeq(llm_conversation, LAMBDA e : e.role = "user")
    IN  [k \in 1..Len(users) |-> users[k].content]

Speaking == {r \in Runners : Co(r).pc \in SpeakPcs}

\* the ResponseTasks that are neither completed nor cancelled
ActiveTasks ==
    {t \in 1..Len(tasks) : tasks[t].pc # "done" /\ ~tasks[t].must_cancel}

-----------------------------------------------------------------------------
(* Properties *)

\* C1: mutual exclusion.  generate_response starts a generate/speak
\* sequence in the step that invokes it, so it is never invoked while an
\* earlier sequence is unfinished exactly when no state has two coroutines
\* between generation and the end of emission.
C1_MutualExclusion == Cardinality(Speaking) <= 1

\* C1 witness: a ResponseTask is emitting its reply, after the greeting,
\* while a final transcript that arrived during the sequence is buffered
C1_Witness ==
    /\ NumPatient >= 2
    /\ pending_agent_text # <<>>
    /\ \E t \in 1..Len(tasks) : tasks[t].pc = "pace"

\* C2: no-loss buffering.  The k-th invocation made with remote text got the
\* space-join of every final transcript that arrived since the previous
\* invocation, in arrival order, and the buffer holds exactly the texts
\* that arrived since the last invocation: each text goes to one
\* invocation, whole, with all its neighbours, never to two and never lost.
C2_NoLossBuffering ==
    LET g == ArrivedGroups IN
    /\ g[1] = <<>>
    /\ pending_agent_text = g[Len(g)]
    /\ TextsGenerated = [k \in 1..(Len(g) - 2) |-> Join(g[k + 1])]

\* C2 witness: the interruption scenario.  Two final transcripts, the task
\* scheduled by the first never responded, and the second task is speaking
\* after an invocation that received both texts joined.
C2_Witness ==
    /\ Len(tasks) = 2
    /\ tasks[1].pc = "done"
    /\ tasks[2].pc \in SpeakPcs
    /\ NumPatient = 2
    /\ Len(TextsGenerated) = 1
    /\ \E t1 \in TranscriptTexts(1), t2 \in TranscriptTexts(2) :
          TextsGenerated[1] = t1 \o <<" ">> \o t2

\* C3: at most one ResponseTask is active (neither completed nor cancelled)
\* at any instant, and it is the one response_task refers to.
C3_OneActiveTask ==
    /\ Cardinality(ActiveTasks) <= 1
    /\ \A t \in ActiveTasks : response_task = t

\* C3 witness: a new task has just superseded one whose cancellation is
\* still to be delivered
C3_Witness ==
    /\ Len(tasks) >= 2
    /\ \E t \in 1..Len(tasks) :
          tasks[t].must_cancel /\ tasks[t].pc \in WaitPcs
    /\ ActiveTasks = {Len(tasks)}

\* C4: cancellation of a task at a suspension point of its wait phase
\* leaves the pending-text buffer as it was, and the step that supersedes
\* a waiting task appends the new text behind everything buffered before.
C4_CancelKeepsBuffer ==
    [][ /\ \A t \in 1..Len(tasks) :
              (tasks[t].pc \in WaitPcs /\ tasks[t].must_cancel
                  /\ tasks'[t].pc = "done")
              => pending_agent_text' = pending_agent_text
        /\ \A t \in 1..Len(tasks) :
              (tasks[t].pc \in WaitPcs /\ ~tasks[t].must_cancel
                  /\ tasks'[t].must_cancel /\ stt_active')
              => /\ Len(pending_agent_text') = Len(pending_agent_text) + 1
                 /\ SubSeq(pending_agent_text', 1, Len(pending_agent_text))
                       = pending_agent_text
                 /\ Last(pending_agent_text') = Last(utterances').text
                 /\ ActiveTasks' = {Len(tasks')}
      ]_vars

\* C4 witness: a task is cancelled while it sleeps in its grace window,
\* with the text it had joined and the superseding text both buffered
C4_Witness ==
    /\ \E t \in 1..Len(tasks) : tasks[t].must_cancel /\ tasks[t].pc = "grace"
    /\ Len(pending_agent_text) = 2
    /\ stt_active

\* C5: once stop() has cancelled the outstanding task no ResponseTask is
\* created, and once the recording has been saved nothing invokes
\* generation, appends an utterance or records a segment.
C5_QuiescentAfterStop ==
    [][ /\ handler_pc \in {"stopping", "stopped"} => Len(tasks') = Len(tasks)
        /\ handler_pc = "stopped"
              => /\ llm_conversation' = llm_conversation
                 /\ utterances' = utterances
                 /\ outbound_segments' = outbound_segments
      ]_vars

\* C6: a final transcript arriving while is_bot_speaking is appended to the
\* buffer; no task is cancelled or created, response_task and the sequence
\* in progress are untouched.
C6_BufferedWhileSpeaking ==
    [][ (is_bot_speaking /\ NumFinal' = NumFinal + 1)
        => /\ pending_agent_text'
                 = Append(pending_agent_text, Last(utterances').text)
           /\ tasks' = tasks
           /\ start_co' = start_co
           /\ response_task' = response_task
           /\ is_bot_speaking'
      ]_vars

\* C6 witness: two final transcripts buffered while a ResponseTask speaks
C6_Witness ==
    /\ is_bot_speaking
    /\ Len(pending_agent_text) = 1
    /\ NumFinal = 2
    /\ \E t \in 1..Len(tasks) : tasks[t].pc \in SpeakPcs

\* C7: when a generate/speak sequence ends, a fresh ResponseTask is
\* scheduled exactly when a final transcript arrived during the sequence;
\* the buffer then holds exactly the texts that arrived during it, and
\* otherwise the scheduler is idle: no active task, empty buffer.
C7_FollowUpIffArrived ==
    [][ (is_bot_speaking /\ ~is_bot_speaking')
        => LET arrived == ArrivedGroups[Len(ArrivedGroups)] IN
           /\ pending_agent_text' = arrived
           /\ arrived # <<>>
                 => /\ Len(tasks') = Len(tasks) + 1
                    /\ tasks'[Len(tasks')] = NewTask
                    /\ response_task' = Len(tasks')
                    /\ ActiveTasks' = {Len(tasks')}
           /\ arrived = <<>>
                 => /\ Len(tasks') = Len(tasks)
                    /\ ActiveTasks' = {}
      ]_vars

\* C7 witness: the greeting has ended with two texts buffered during it;
\* the only task there is was scheduled by the end of the sequence
C7_Witness ==
    /\ ~is_bot_speaking
    /\ tasks = <<NewTask>>
    /\ Len(pending_agent_text) = 2

\* C8: a step in which tts.synthesize or audio_sender raises ends the
\* sequence without a segment, resets is_bot_speaking, schedules a
\* follow-up exactly when text is buffered, and leaves the session running:
\* the handler and the transcript stream are as before.
C8_ErrorRecovered ==
    [][ \A r \in Runners :
          (Co(r).pc \in SpeakPcs /\ ~Co(r).must_cancel
              /\ (IF r = 0 THEN start_co' ELSE tasks'[r]).pc = "done"
              /\ outbound_segments' = outbound_segments)
          => /\ ~is_bot_speaking'
             /\ IF pending_agent_text # <<>>
                THEN ActiveTasks' = {Len(tasks')} /\ tasks'[Len(tasks')] = NewTask
                ELSE ActiveTasks' = {}
             /\ stt_active' = stt_active
             /\ handler_pc' = IF r = 0 THEN "loop" ELSE handler_pc
             /\ pending_agent_text' = pending_agent_text
      ]_vars

\* C8 witness: two turns have failed (no segment was recorded for the
\* greeting or for the first reply) and a later final transcript is being
\* answered, the call still open
C8_Witness ==
    /\ handler_pc = "loop"
    /\ outbound_segments = <<>>
    /\ NumPatient = 3
    /\ \E t \in 1..Len(tasks) : tasks[t].pc = "pace"

C10_AlignedAtOffset ==
    (aligned_out.built /\ Len(aligned_out.segments) = 1)
    => LET seg == aligned_out.segments[1]
           O   == seg.byte_position
           P   == Len(seg.audio)
           L   == aligned_out.total_length
       IN  (0 <= O /\ O < L)
           => \A j \in 0..(Len(aligned_out.result) - 1) :
                 aligned_out.result[j + 1] =
                    IF O <= j /\ j < O + P THEN seg.audio[j - O + 1] ELSE 0

\* C10 amended: with E, S the total length and the offset rounded down to
\* even and 0 <= S < E, the result has length E, holds the payload cut to
\* even length byte-for-byte from S on, clamped to E, and silence elsewhere.
C10_AlignedAtEvenOffset ==
    (aligned_out.built /\ Len(aligned_out.segments) = 1)
    => LET seg == aligned_out.segments[1]
           S   == seg.byte_position - (seg.byte_position % 2)
           P   == Len(seg.audio) - (Len(seg.audio) % 2)
           E   == aligned_out.total_length - (aligned_out.total_length % 2)
       IN  /\ Len(aligned_out.result) = E
           /\ (0 <= S /\ S < E)
              => \A j \in 0..(E - 1) :
                    aligned_out.result[j + 1] =
                       IF S <= j /\ j < S + P THEN seg.audio[j - S + 1] ELSE 0

\* C10 witness: one segment with an odd offset in range and an odd payload
\* length that runs past the end of an odd total length
C10_Witness ==
    /\ aligned_out.built
    /\ Len(aligned_out.segments) = 1
    /\ aligned_out.total_length = 5
    /\ aligned_out.segments[1].byte_position = 3
    /\ Len(aligned_out.segments[1].audio) = 3
    /\ aligned_out.result = <<0, 0, 11, 12>>

-----------------------------------------------------------------------------
(* Where a segment lies in the aligned track *)

\* position j (from 0) of a track of length E is covered by the segment
PlacedAt(seg, j, E) ==
    LET S == seg.byte_position - (seg.byte_position % 2)
        Q == Len(seg.audio) - (Len(seg.audio) % 2)
    IN  0 <= S /\ S < E /\ S <= j /\ j < S + Q

\* the byte the segment contributes at position j
PlacedByte(seg, j) ==
    seg.audio[j - (seg.byte_position - (seg.byte_position % 2)) + 1]

\* C11: with two recorded segments, every byte of the aligned track that
\* both cover is the later-recorded segment's byte, a byte only the earlier
\* one covers is the earlier one's, and every other byte is silence.
C11_LastWriterWins ==
    (aligned_out.built /\ Len(aligned_out.segments) = 2)
    => LET first  == aligned_out.segments[1]
           second == aligned_out.segments[2]
           E      == Len(aligned_out.result)
       IN  \A j \in 0..(E - 1) :
              aligned_out.result[j + 1] =
                 IF PlacedAt(second, j, E) THEN PlacedByte(second, j)
                 ELSE IF PlacedAt(first, j, E) THEN PlacedByte(first, j)
                 ELSE 0

\* C11 witness: the later segment lies inside the earlier one; the track
\* keeps the earlier bytes before it and has the later bytes over the
\* common range
C11_Witness ==
    /\ aligned_out.built
    /\ aligned_out.segments = <<OutboundSegment(0, <<31, 32, 33, 34>>),
                                OutboundSegment(2, <<21, 22>>)>>
    /\ aligned_out.result = <<31, 32, 21, 22>>

\* the scheduler is idle: nothing is being spoken, no task is active and
\* nothing is buffered
SchedulerIdle ==
    /\ ~is_bot_speaking
    /\ Speaking = {}
    /\ ActiveTasks = {}
    /\ pending_agent_text = <<>>

\* the one final transcript heard so far waits for its response, the bot
\* silent and the call open
OneHeardWaiting ==
    /\ handler_pc = "loop"
    /\ NumFinal = 1
    /\ ~is_bot_speaking
    /\ pending_agent_text = ArrivedGroups[Len(ArrivedGroups)]
    /\ pending_agent_text # <<>>

\* generation has been invoked once with the text heard, and the scheduler
\* is idle again
OneAnsweredIdle ==
    /\ NumFinal = 1
    /\ NumPatient = 2
    /\ TextsGenerated = <<Join(ArrivedGroups[2])>>
    /\ SchedulerIdle

\* C12: a final transcript heard with the bot silent, followed by no other
\* final transcript while the call stays open, leads to one invocation of
\* generate_response with its text and to the idle scheduler; and as long
\* as it is the only transcript, the greeting and this reply are the only
\* invocations.
C12_OneReplyEventually ==
    /\ OneHeardWaiting ~> (OneAnsweredIdle \/ NumFinal > 1 \/ handler_pc # "loop")
    /\ [](NumFinal <= 1 => NumPatient <= 2)

\* C12 witness: the call is open, one transcript was heard after the
\* greeting had ended, it was answered and the scheduler is idle
C12_Witness ==
    /\ handler_pc = "loop"
    /\ OneAnsweredIdle
    /\ utterances[2].speaker = "agent"

\* task t invokes generate_response in this step
Invokes(t) ==
    /\ t \in 1..Len(tasks)
    /\ tasks[t].pc \in WaitPcs
    /\ tasks'[t].pc = "synth"

\* C13: a task invokes generation no earlier than RESPONSE_DELAY after it
\* was created, and no earlier than RESPONSE_DELAY after the latest final
\* transcript heard while the bot was not speaking.
C13_SettleDelayFirst ==
    [][ \A t \in 1..Len(tasks) :
          Invokes(t) => /\ task_age[t] = RESPONSE_DELAY
                        /\ since_trigger = RESPONSE_DELAY
      ]_vars

\* C13 witness: a second final transcript superseded the task of the
\* first, and the task it created has waited its own settle delay and
\* invoked generation with both texts
C13_Witness ==
    /\ NumFinal = 2
    /\ Len(tasks) = 2
    /\ tasks[1].pc = "done"
    /\ tasks[2].pc = "synth"
    /\ Len(TextsGenerated) = 1
    /\ TextsGenerated[1] = Join(ArrivedGroups[2])
    /\ Len(ArrivedGroups[2]) = 2
    /\ since_trigger = RESPONSE_DELAY

\* task t, not cancelled, is resumed from a sleep of its wait phase in this
\* step
Resumed(t) ==
    /\ t \in 1..Len(tasks)
    /\ tasks[t].pc \in WaitPcs
    /\ ~tasks[t].must_cancel
    /\ ~tasks'[t].must_cancel
    /\ tasks'[t].pc # tasks[t].pc \/ sleep_left'[t + 1] > sleep_left[t + 1]

\* C14: a task resumed from its settle delay or from a poll while less than
\* VOICE_ACTIVITY_TIMEOUT has passed since the last voice activity sleeps
\* another poll interval and nothing is generated; it goes on (to the grace
\* window, to generation, or to its end when nothing is buffered) only
\* from a resumption that finds the silence long enough, its settle delay
\* over; and the grace window is entered from nowhere else.
C14_PollsUntilSilent ==
    [][ \A t \in 1..Len(tasks) :
          /\ (Resumed(t) /\ tasks[t].pc \in {"settle", "poll1", "poll2"})
                => IF silent_for < VOICE_ACTIVITY_TIMEOUT
                   THEN /\ tasks'[t].pc \in {"poll1", "poll2"}
                        /\ sleep_left'[t + 1] = PollInterval
                        /\ utterances' = utterances
                        /\ llm_conversation' = llm_conversation
                        /\ pending_agent_text' = pending_agent_text
                   ELSE /\ tasks'[t].pc \in {"grace", "synth", "done"}
                        /\ task_age[t] = RESPONSE_DELAY
          /\ (tasks[t].pc # "grace" /\ tasks'[t].pc = "grace")
                => Resumed(t) /\ tasks[t].pc \in {"settle", "poll1"}
          /\ Invokes(t) => Resumed(t)
      ]_vars

\* C14 witness: a task past its settle delay has just polled, found voice
\* activity less than the timeout ago, and sleeps until the next poll with
\* its text still buffered
C14_Witness ==
    \E t \in 1..Len(tasks) :
        /\ tasks[t].pc = "poll1"
        /\ ~tasks[t].must_cancel
        /\ sleep_left[t + 1] = PollInterval
        /\ task_age[t] = RESPONSE_DELAY
        /\ silent_for > 1
        /\ silent_for < VOICE_ACTIVITY_TIMEOUT
        /\ pending_agent_text # <<>>

\* C15: when the silence is confirmed and the buffered text does not end a
\* sentence the task sleeps one grace window and generates nothing yet; it
\* responds from the grace window only if nothing was buffered meanwhile;
\* a final transcript heard during the window cancels it and starts a task
\* that begins again with the settle delay (and so, by C14, with the
\* silence confirmation), and whatever a task responds to is the whole
\* buffer, the new text included.
C15_GraceThenFullRecheck ==
    [][ \A t \in 1..Len(tasks) :
          /\ (Resumed(t) /\ tasks[t].pc \in {"settle", "poll1"}
                /\ silent_for = VOICE_ACTIVITY_TIMEOUT
                /\ pending_agent_text # <<>>)
                => IF EndsSentence(Join(pending_agent_text))
                   THEN Invokes(t)
                   ELSE /\ tasks'[t].pc = "grace"
                        /\ sleep_left'[t + 1] = GraceWindow
                        /\ utterances' = utterances
                        /\ pending_agent_text' = pending_agent_text
          /\ (Invokes(t) /\ tasks[t].pc = "grace")
                => /\ Len(pending_agent_text) = tasks[t].original_count
                   /\ sleep_left[t + 1] <= 0
          /\ Invokes(t)
                => /\ Last(TextsGenerated') = Join(pending_agent_text)
                   /\ pending_agent_text' = <<>>
          /\ (tasks[t].pc = "grace" /\ ~tasks[t].must_cancel
                /\ Len(pending_agent_text') > Len(pending_agent_text))
                => /\ tasks'[t].must_cancel
                   /\ Len(tasks') = Len(tasks) + 1
                   /\ tasks'[Len(tasks')] = NewTask
                   /\ sleep_left'[Len(tasks') + 1] = RESPONSE_DELAY
                   /\ task_age'[Len(tasks')] = 0
      ]_vars

\* C15 witness: the first text did not end a sentence, its task was in
\* the grace window when the second final transcript was heard, and the
\* task started for it sleeps its settle delay with both texts buffered
C15_Witness ==
    /\ Len(tasks) = 2
    /\ tasks[1].pc = "grace"
    /\ tasks[1].must_cancel
    /\ tasks[2] = NewTask
    /\ sleep_left[3] = RESPONSE_DELAY
    /\ Len(pending_agent_text) = 2
    /\ ~EndsSentence(pending_agent_text[1])

\* C16: the buffer is emptied only by a task that invokes generation in the
\* same step, and the text it passes is the space-join of what the buffer
\* holds at that instant, whether or not a grace window lay between the
\* join of line 111 and the clear of line 126.
C16_ReadClearAtomic ==
    [][ (pending_agent_text # <<>> /\ pending_agent_text' = <<>>)
          => /\ \E t \in 1..Len(tasks) :
                   /\ tasks[t].pc \in WaitPcs
                   /\ ~tasks[t].must_cancel
                   /\ tasks'[t].pc = "synth"
             /\ Len(TextsGenerated') = Len(TextsGenerated) + 1
             /\ Last(TextsGenerated') = Join(pending_agent_text)
      ]_vars

\* C16 witness: two texts, the joined text without a sentence ending, went
\* through the grace window and were passed to generation together
C16_Witness ==
    /\ Len(ArrivedGroups) = 3
    /\ Len(ArrivedGroups[2]) = 2
    /\ ArrivedGroups[3] = <<>>
    /\ ~EndsSentence(Join(ArrivedGroups[2]))
    /\ TextsGenerated = <<Join(ArrivedGroups[2])>>
    /\ pending_agent_text = <<>>
    /\ \E t \in 1..Len(tasks) : tasks[t].pc = "synth"

\* C17: a step in which an interim transcript is delivered changes neither
\* the buffer, the ledger, any task or coroutine (its suspension point and
\* cancellation flag included), response_task, is_bot_speaking nor
\* anything else of the session.
C17_InterimIgnored ==
    [][ interims_heard' # interims_heard
          => UNCHANGED <<pending_agent_text, utterances, tasks, start_co,
                         response_task, is_bot_speaking, llm_conversation,
                         handler_pc, stt_active, tts_closed, voice_recent,
                         inbound_audio, outbound_segments, saved>>
      ]_vars

\* C17 witness: MaxInterims interim transcripts were delivered and a task
\* is in its grace window with the text buffered
C17_Witness ==
    /\ interims_heard = MaxInterims
    /\ pending_agent_text # <<>>
    /\ \E t \in 1..Len(tasks) : tasks[t].pc = "grace" /\ ~tasks[t].must_cancel

C19_LedgerAppendOnly ==
    [][ LET heard   == Len(pending_agent_text') > Len(pending_agent_text)
            replied == ~is_bot_speaking /\ is_bot_speaking'
        IN  /\ heard =>
                 utterances' = Append(utterances,
                                      Utterance("agent", Last(pending_agent_text')))
            /\ replied =>
                 /\ Len(utterances') = Len(utterances) + 1
                 /\ SubSeq(utterances', 1, Len(utterances)) = utterances
                 /\ Last(utterances').speaker = "patient"
                 /\ Last(utterances').text = ReplyText(api_reachable)
            /\ ~heard /\ ~replied => utterances' = utterances
            /\ Len(utter_times') = Len(utterances')
            /\ SubSeq(utter_times', 1, Len(utter_times)) = utter_times
            /\ \A i, j \in 1..Len(utter_times') :
                  i <= j => utter_times'[i] <= utter_times'[j]
      ]_vars

\* C19 witness: the opening line, an agent utterance, the reply to it, and
\* a second agent utterance recorded while that reply was being spoken, at
\* a later stamp than the first
C19_Witness ==
    /\ Len(utterances) = 4
    /\ utterances[1].speaker = "patient"
    /\ utterances[2].speaker = "agent"
    /\ utterances[3].speaker = "patient"
    /\ utterances[4].speaker = "agent"
    /\ utterances[4].text # utterances[2].text
    /\ is_bot_speaking
    /\ pending_agent_text = <<utterances[4].text>>
    /\ utter_times[2] < utter_times[4]

\* the k-th sample of a track, silence past its end
SampleAt(pcm, k) == IF k <= Len(Samples(pcm)) THEN Samples(pcm)[k] ELSE 0

\* C20: every sample of the mix is the sum of the floors of half of the two
\* input samples (silence where a track has ended), the mix is as long as
\* the longer track, and that sum lies in -32768..32767, so the clipping of
\* audioop.add never acts.
C20_MixIsSumOfHalves ==
    "combined.wav" \in saved.files =>
        LET audio1 == inbound_audio
            audio2 == aligned_out.result
            mixed  == Samples(saved.combined_wav)
        IN  /\ Len(saved.combined_wav) = Max2(Len(audio1), Len(audio2))
            /\ \A k \in 1..Len(mixed) :
                  LET sum == (SampleAt(audio1, k) \div 2)
                             + (SampleAt(audio2, k) \div 2)
                  IN  /\ mixed[k] = sum
                      /\ sum >= 0 - 32768
                      /\ sum <= 32767

\* C20 witness: both tracks at positive full scale in their first sample and
\* at negative full scale in their second have been mixed
C20_Witness ==
    /\ "combined.wav" \in saved.files
    /\ Samples(inbound_audio) = <<32767, 0 - 32768>>
    /\ Samples(aligned_out.result) = <<32767, 0 - 32768>>
    /\ Samples(saved.combined_wav) = <<32766, 0 - 32768>>

\* C21: the mix is as long as the longer input rounded down to an even
\* number of bytes, and every sample of it that lies wholly beyond the end
\* of one input is the floor of half of the other input's sample.
C21_MixLengthAndPadding ==
    "combined.wav" \in saved.files =>
        LET a     == inbound_audio
            b     == aligned_out.result
            mixed == Samples(saved.combined_wav)
        IN  /\ Len(saved.combined_wav) = ClearBit0(Max2(Len(a), Len(b)))
            /\ \A k \in 1..Len(mixed) :
                  /\ 2 * k - 1 > Len(a) => mixed[k] = SampleAt(b, k) \div 2
                  /\ 2 * k - 1 > Len(b) => mixed[k] = SampleAt(a, k) \div 2

\* C21 witness: a track of five bytes has been mixed with a track of one
\* byte; the mix has four bytes and its second sample is half of full scale
C21_Witness ==
    /\ "combined.wav" \in saved.files
    /\ Len(inbound_audio) = 5
    /\ Len(aligned_out.result) = 1
    /\ SampleAt(inbound_audio, 2) = 32767
    /\ Len(saved.combined_wav) = 4
    /\ Samples(saved.combined_wav)[2] = 16383

\* C22: whatever segments were recorded, the aligned track is as long as the
\* total length rounded down to an even number; the last recorded segment,
\* when its even-rounded offset is in range, lies in the track from that
\* offset on, cut where the track ends; and every byte no segment covers is
\* silence.
C22_AlignedLengthAndPlacement ==
    aligned_out.built
    => LET segs == aligned_out.segments
           E    == aligned_out.total_length - (aligned_out.total_length % 2)
           last == segs[Len(segs)]
       IN  /\ Len(aligned_out.result) = E
           /\ \A j \in 0..(E - 1) :
                 /\ PlacedAt(last, j, E)
                       => aligned_out.result[j + 1] = PlacedByte(last, j)
                 /\ (\A n \in 1..Len(segs) : ~PlacedAt(segs[n], j, E))
                       => aligned_out.result[j + 1] = 0

\* C22 witness: of two recorded segments the last has an odd offset and runs
\* past the end of a track of four bytes; it is cut at the end
C22_Witness ==
    /\ aligned_out.built
    /\ Len(aligned_out.segments) = 2
    /\ aligned_out.total_length = 5
    /\ aligned_out.segments[2] = OutboundSegment(3, <<31, 32, 33, 34>>)
    /\ aligned_out.segments[1].byte_position = 0
    /\ aligned_out.result = <<21, 22, 31, 32>>

\* the segment's even-rounded offset lies in a track of length E
OffsetInRange(seg, E) ==
    LET S == seg.byte_position - (seg.byte_position % 2)
    IN  0 <= S /\ S < E

\* C23: the aligned track is the one that the segments with an offset in
\* range would give by themselves, in the same order; when no segment is in
\* range, as with an empty inbound timeline, it is all silence.
C23_OutOfRangeSkipped ==
    aligned_out.built
    => LET E    == aligned_out.total_length - (aligned_out.total_length % 2)
           kept == SelectSeq(aligned_out.segments,
                             LAMBDA seg : OffsetInRange(seg, E))
       IN  /\ aligned_out.result
                 = BuildAlignedOutbound(kept, aligned_out.total_length)
           /\ kept = <<>> => aligned_out.result = Silence(E)

\* C23 witness: a segment recorded at a negative offset was skipped and the
\* segment recorded after it, in range, was applied
C23_Witness ==
    /\ aligned_out.built
    /\ aligned_out.total_length = 4
    /\ aligned_out.segments
          = <<OutboundSegment(0 - 1, <<21, 22>>), OutboundSegment(2, <<11, 12, 13>>)>>
    /\ aligned_out.result = <<0, 0, 11, 12>>

\* the empty-timeline case of C23 is reached: two segments, the first with
\* a payload, were recorded and the track built for them is empty
C23_EmptyTimelineReached ==
    /\ aligned_out.built
    /\ aligned_out.total_length = 0
    /\ Len(aligned_out.segments) = 2
    /\ aligned_out.segments[1].audio # <<>>
    /\ aligned_out.result = <<>>

\* where the payload of the n-th segment begins in the raw track
RECURSIVE PayloadStart(_, _)
PayloadStart(segs, n) ==
    IF n = 1 THEN 0 ELSE PayloadStart(segs, n - 1) + Len(segs[n - 1].audio)

\* C24: a save that ran to its end with segments recorded wrote the raw
\* outbound track, and the raw track on disk holds every byte of every
\* segment's payload, the payloads following each other in recording order
\* with nothing before, between or after them.
C24_RawIsConcatenation ==
    /\ (handler_pc = "stopped" /\ outbound_segments # <<>>)
          => "outbound_raw.wav" \in saved.files
    /\ "outbound_raw.wav" \in saved.files
          => LET segs == outbound_segments
                 raw  == saved.outbound_raw_wav
             IN  /\ Len(raw) = PayloadStart(segs, Len(segs)) + Len(segs[Len(segs)].audio)
                 /\ \A n \in 1..Len(segs) :
                       \A j \in 1..Len(segs[n].audio) :
                          raw[PayloadStart(segs, n) + j] = segs[n].audio[j]

\* C24 witness: two segments with payloads of odd and of even length were
\* saved; the raw track holds both, whole, in recording order
C24_Witness ==
    /\ handler_pc = "stopped"
    /\ Len(outbound_segments) = 2
    /\ outbound_segments[1].audio = <<11, 12, 13>>
    /\ outbound_segments[2].audio = <<21, 22>>
    /\ saved.outbound_raw_wav = <<11, 12, 13, 21, 22>>
    /\ saved.outbound_wav # saved.outbound_raw_wav

\* C30: when the write of one artifact fails, teardown still runs to its end
\* and every other artifact save() was due to write is on disk, those
\* written before the failure and those due after it.
C30_BestEffortSave ==
    handler_pc # "stopping"
    => LET due == {SaveOrder(inbound_audio, outbound_segments)[k] :
                      k \in 1..Len(SaveOrder(inbound_audio, outbound_segments))}
       IN  /\ handler_pc = "stopped"
           /\ Cardinality(due \ saved.files) <= 1

\* the part of C30 that the code keeps: the artifacts written before the
\* failing write stay on disk with their full content
C30_WrittenBeforeFailureKept ==
    handler_pc = "stop_raised"
    => LET full == SaveFiles(utterances, inbound_audio, outbound_segments)
       IN  /\ saved.files \subseteq full.files
           /\ "transcript.json" \in saved.files
                 => saved.transcript_json = full.transcript_json
           /\ "outbound_raw.wav" \in saved.files
                 => saved.outbound_raw_wav = full.outbound_raw_wav

\* the failure case of C30 is reached: the write of inbound.wav raised with
\* three more artifacts due
C30_FailureReached ==
    /\ handler_pc = "stop_raised"
    /\ saved.files = {"transcript.json", "transcript.txt"}
    /\ inbound_audio # <<>>
    /\ outbound_segments # <<>>

\* C25: the inbound timeline always has an even length, and the offset of
\* every recorded segment, and every offset a speaking coroutine has
\* captured, is even and not negative.
C25_OffsetsSampleAligned ==
    /\ Len(inbound_audio) % 2 = 0
    /\ \A n \in 1..Len(outbound_segments) :
          /\ outbound_segments[n].byte_position >= 0
          /\ outbound_segments[n].byte_position % 2 = 0
    /\ \A r \in Runners :
          Co(r).pc \in SpeakPcs
             => Co(r).start_position >= 0 /\ Co(r).start_position % 2 = 0

\* C25 witness: after the opening line, recorded at offset 0, a reply was
\* recorded at the offset taken once a media frame had arrived
C25_Witness ==
    /\ Len(outbound_segments) = 2
    /\ outbound_segments[1].byte_position = 0
    /\ outbound_segments[2].byte_position = 2
    /\ outbound_segments[2].audio # <<>>

RECURSIVE FloorSqrtBetween(_, _, _)
\* the largest q in lo..hi with q * q <= n, by bisection
FloorSqrtBetween(n, lo, hi) ==
    IF lo = hi THEN lo
    ELSE LET mid == (lo + hi + 1) \div 2
         IN  IF mid * mid <= n THEN FloorSqrtBetween(n, mid, hi)
             ELSE FloorSqrtBetween(n, lo, mid - 1)

\* the energy of a PCM fragment: the floor of the root of the mean square
Energy(pcm) ==
    LET ss == Samples(pcm)
    IN  IF ss = <<>> THEN 0
        ELSE FloorSqrtBetween(SumSquares(ss) \div Len(ss), 0, 32768)

\* the time of the last detected voice activity
LastVoiceActivity == now - silent_for

\* C26: a frame whose energy was computed sets last_voice_activity to the
\* current time exactly when that energy is greater than SILENCE_THRESHOLD;
\* a frame whose energy computation raised leaves last_voice_activity as it
\* was; in both cases two PCM bytes per mu-law byte are appended to the
\* inbound timeline, and last_voice_activity never decreases in any step.
C26_VoiceActivityUpdate ==
    [][ /\ LastVoiceActivity' >= LastVoiceActivity
        /\ \A frame \in VoiceFrames :
              LET appended == SubSeq(inbound_audio', Len(inbound_audio) + 1,
                                     Len(inbound_audio'))
                  loud     == Energy(appended) > SILENCE_THRESHOLD
              IN  /\ ObserveFrame(frame, FALSE)
                        => /\ SubSeq(inbound_audio', 1, Len(inbound_audio))
                                 = inbound_audio
                           /\ Len(appended) = 2 * Len(frame)
                           /\ loud => LastVoiceActivity' = now
                           /\ ~loud => LastVoiceActivity' = LastVoiceActivity
                  /\ ObserveFrame(frame, TRUE)
                        => /\ SubSeq(inbound_audio', 1, Len(inbound_audio))
                                 = inbound_audio
                           /\ Len(appended) = 2 * Len(frame)
                           /\ LastVoiceActivity' = LastVoiceActivity
      ]_vars

\* C26 witness: a frame above the threshold was heard at time 2 and, a tick
\* later, a frame with an energy of exactly the threshold, which left
\* last_voice_activity at 2
C26_Witness ==
    /\ now = 3
    /\ LastVoiceActivity = 2
    /\ Len(inbound_audio) = 8
    /\ Energy(SubSeq(inbound_audio, 1, 4)) = SILENCE_THRESHOLD + 1
    /\ Energy(SubSeq(inbound_audio, 5, 8)) = SILENCE_THRESHOLD

\* C27: every frame a ConversationManager was given came from the
\* connection whose start event created it, and only the handler of that
\* connection called its stop().
C27_SessionsIsolated ==
    \A m \in 1..Len(managers) :
       /\ \A k \in 1..Len(managers[m].frames_from) :
             managers[m].frames_from[k] = managers[m].owner
       /\ managers[m].stopped_by \subseteq {managers[m].owner}

\* the cases C27 names are reached: the second connection was accepted
\* while the first was open, and its acceptance stopped the first one's
\* conversation
C27_SecondAcceptStopsFirst ==
    /\ Len(managers) >= 1
    /\ managers[1].owner = 1
    /\ 2 \in managers[1].stopped_by
    /\ handlers[1].pc = "loop"

\* the first connection's handler finished after the second session had
\* started, and its cleanup stopped the second one's conversation
C27_FirstCloseStopsSecond ==
    /\ Len(managers) = 2
    /\ managers[2].owner = 2
    /\ 1 \in managers[2].stopped_by

\* a frame of the first connection was given to the second one's manager
C27_FrameCrossesSessions ==
    /\ Len(managers) = 2
    /\ managers[2].owner = 2
    /\ managers[2].frames_from = <<1>>

\* C28: a chunk that is not the last of its payload plays for exactly
\* CHUNK_DURATION, and when the send loop has ended the time it took equals
\* the playing time of the payload, the last chunk counting as a whole one.
C28_RealTimeCadence ==
    /\ (start_co.pc = "pace"
        /\ start_co.i + CHUNK_SIZE < Len(start_co.pcm_audio))
          => CHUNK_SIZE = CHUNK_DURATION * PcmBytesPerMs
    /\ outbound_segments # <<>>
          => LET paced_bytes == now * PcmBytesPerMs
                 sent_bytes  == Len(outbound_segments[1].audio)
             IN  /\ paced_bytes >= sent_bytes
                 /\ paced_bytes - sent_bytes < CHUNK_DURATION * PcmBytesPerMs

\* what the send loop does instead: it sleeps CHUNK_DURATION for every
\* CHUNK_SIZE bytes, which play for half of CHUNK_DURATION
C28_PacedAtHalfSpeed ==
    outbound_segments # <<>>
       => LET sent_bytes == Len(outbound_segments[1].audio)
              chunks     == (sent_bytes + CHUNK_SIZE - 1) \div CHUNK_SIZE
          IN  /\ now = chunks * CHUNK_DURATION
              /\ 2 * CHUNK_SIZE = CHUNK_DURATION * PcmBytesPerMs

\* the case of C28 is reached: a payload of four whole chunks, 40 ms of
\* audio, has been sent in 80 ms
C28_SlowSendReached ==
    /\ outbound_segments # <<>>
    /\ Len(outbound_segments[1].audio) = 4 * CHUNK_SIZE
    /\ now = 4 * CHUNK_DURATION

\* C29: the utterances read back from the written transcript are as many as
\* the ledger holds and, one by one in the ledger's order, have its
\* speaker, its text and its timestamp.
C29_TranscriptRoundTrip ==
    "transcript.json" \in saved.files
    => LET parsed == LoadUtterances(saved.transcript_json)
       IN  /\ Len(parsed) = Len(utterances)
           /\ \A k \in 1..Len(utterances) :
                 /\ parsed[k].speaker = utterances[k].speaker
                 /\ parsed[k].text = utterances[k].text
                 /\ parsed[k].timestamp = utter_times[k]

\* C29 witness: a ledger of two utterances whose texts hold a backslash
\* before the letter n, a quote and a character outside ASCII was written
C29_Witness ==
    /\ "transcript.json" \in saved.files
    /\ Len(utterances) = 2
    /\ utterances[1] = Utterance("agent", <<"\\", "n">>)
    /\ utterances[2] = Utterance("patient", <<"U+00E9", "\\", "\"">>)
    /\ utter_times = <<7, 120>>
    /\ saved.transcript_json[1].text = <<"\"", "\\", "\\", "n", "\"">>

-----------------------------------------------------------------------------
\* the step in which wait_for_call_complete leaves its loop through the
\* return inside it
ReturnsEarly == waiter.pc = "polling" /\ waiter'.pc = "returned"

\* the value returned names a call other than initial_call_id that has
\* started and is over
FinishedNewCall(call_id) ==
    /\ call_id # 0
    /\ call_id # waiter.initial_call_id
    /\ call_id <= app_state.last_call_id
    /\ ~(app_state.call_in_progress /\ app_state.last_call_id = call_id)

\* C31: wait_for_call_complete returns None only when the timeout has
\* elapsed; a return before the timeout gives the id of a call that differs
\* from initial_call_id, has started and is no longer in progress, also when
\* a poll fails after the new call was seen.
C31_ReturnsFinishedNewCall ==
    [][/\ ReturnsEarly => FinishedNewCall(waiter'.returned)
       /\ (waiter.pc = "polling" /\ waiter'.pc # "polling"
             /\ waiter'.returned = 0)
            => waiter.elapsed >= waiter.timeout]_vars

\* C31, the part that holds: as long as no poll has failed, a return before
\* the timeout gives the id of a finished call other than initial_call_id,
\* and None is returned only after the timeout.
C31_SoundWhilePollsSucceed ==
    [][waiter'.polls_failed = 0 =>
         /\ ReturnsEarly => FinishedNewCall(waiter'.returned)
         /\ (waiter.pc = "polling" /\ waiter'.pc # "polling"
               /\ waiter'.returned = 0)
              => waiter.elapsed >= waiter.timeout]_vars

\* C31, the failing case: None was returned before the timeout while the new
\* call, seen earlier, is still in progress.
C31_NoneBeforeTimeout ==
    /\ waiter.pc = "returned"
    /\ waiter.returned = 0
    /\ waiter.elapsed < waiter.timeout
    /\ waiter.seen_new_call
    /\ app_state.call_in_progress
    /\ app_state.last_call_id # waiter.initial_call_id

-----------------------------------------------------------------------------
\* C32: whenever a ResponseTask invokes response generation, at least
\* VOICE_ACTIVITY_TIMEOUT has passed since the last detected voice activity,
\* on every path through the wait phase, the one through a grace window in
\* which no text arrived included.
C32_SilentAtGeneration ==
    [][ \A t \in 1..Len(tasks) :
          Invokes(t) => silent_for >= VOICE_ACTIVITY_TIMEOUT ]_vars

\* C32, the part that holds: a task that invokes generation straight from
\* its settle delay or from a silence poll finds the silence long enough.
C32_SilentWhenPolled ==
    [][ \A t \in 1..Len(tasks) :
          (Invokes(t) /\ tasks[t].pc # "grace")
             => silent_for >= VOICE_ACTIVITY_TIMEOUT ]_vars

-----------------------------------------------------------------------------
\* C33: is_bot_speaking is true exactly while a _generate_and_speak
\* sequence is in progress: a coroutine is suspended inside the sequence
\* (in tts.synthesize or in the send loop) if and only if the flag is set,
\* however earlier sequences ended, and no two sequences run at once.
C33_FlagIffSequenceRuns ==
    /\ is_bot_speaking <=> Speaking # {}
    /\ Cardinality(Speaking) <= 1

\* C33 witness: the greeting was emitted and recorded, the reply to the
\* first transcript ended without a segment (an error or a cancellation),
\* the flag was reset, and the reply to the second transcript is now being
\* emitted with the flag set
C33_Witness ==
    /\ is_bot_speaking
    /\ start_co.pc = "done"
    /\ Len(tasks) >= 2
    /\ \E t \in 1..Len(tasks) : tasks[t].pc = "pace"
    /\ NumPatient = 3
    /\ Len(outbound_segments) = 1

-----------------------------------------------------------------------------
\* runner r ends its _generate_and_speak sequence in this step
SequenceEnds(r) ==
    /\ Co(r).pc \in SpeakPcs
    /\ (IF r = 0 THEN start_co' ELSE tasks'[r]).pc = "done"

\* every chunk of the payload of runner r has been handed to the sender
AllChunksSent(r) ==
    /\ Co(r).pc = "pace"
    /\ Co(r).i + CHUNK_SIZE >= Len(Co(r).pcm_audio)

\* C34: a segment is recorded only by a sequence, not cancelled, whose every
\* chunk has been passed to the audio sender (an empty payload has none),
\* and the segment carries that payload; a sequence that ends cancelled or
\* before its last chunk was passed records nothing and leaves its reply in
\* the ledger; recorded segments are never removed and never outnumber the
\* 'patient' utterances (the counts are compared after each step that
\* changes the segments or the ledger: both are 0 at first).
C34_SegmentAfterFullEmission ==
    [][ /\ (outbound_segments' # outbound_segments \/ utterances' # utterances)
           => /\ Len(outbound_segments') <= NumPatient'
              /\ Len(outbound_segments') >= Len(outbound_segments)
              /\ SubSeq(outbound_segments', 1, Len(outbound_segments))
                    = outbound_segments
              /\ Len(outbound_segments') > Len(outbound_segments)
                    => /\ Len(outbound_segments') = Len(outbound_segments) + 1
                       /\ \E r \in Runners :
                             /\ SequenceEnds(r)
                             /\ ~Co(r).must_cancel
                             /\ IF Co(r).pc = "pace"
                                THEN /\ AllChunksSent(r)
                                     /\ Last(outbound_segments').audio
                                           = Co(r).pcm_audio
                                ELSE Last(outbound_segments').audio = <<>>
        /\ \A r \in Runners :
              (SequenceEnds(r)
                 /\ (Co(r).must_cancel
                       \/ (Co(r).pc = "pace" /\ ~AllChunksSent(r))))
              => /\ outbound_segments' = outbound_segments
                 /\ utterances' = utterances
      ]_vars

\* C34 witness: the greeting was emitted in full and recorded; the reply to
\* the first transcript is in the ledger but its sequence ended without a
\* segment
C34_Witness ==
    /\ Speaking = {}
    /\ start_co.pc = "done"
    /\ NumPatient = 2
    /\ Len(outbound_segments) = 1
    /\ outbound_segments[1].audio = PayloadLong
    /\ utterances[Len(utterances)].speaker = "patient"

-----------------------------------------------------------------------------
\* C35: after every step the offsets of the recorded segments are
\* non-decreasing in recording order, each is at most the length of the
\* inbound timeline, and the inbound timeline has only been appended to.
C35_OffsetsOrderedWithinTimeline ==
    [][ /\ Len(inbound_audio') >= Len(inbound_audio)
        /\ SubSeq(inbound_audio', 1, Len(inbound_audio)) = inbound_audio
        /\ \A k \in 1..(Len(outbound_segments') - 1) :
              outbound_segments'[k].byte_position
                 <= outbound_segments'[k + 1].byte_position
        /\ \A k \in 1..Len(outbound_segments') :
              outbound_segments'[k].byte_position <= Len(inbound_audio')
      ]_vars

\* C35 witness: a segment recorded before any inbound frame and one whose
\* emission began after a frame had arrived
C35_Witness ==
    /\ Len(outbound_segments) = 2
    /\ outbound_segments[1].byte_position = 0
    /\ outbound_segments[2].byte_position = 2
    /\ outbound_segments[2].audio = PayloadLong
    /\ Len(inbound_audio) >= 2

-----------------------------------------------------------------------------
\* task t, not cancelled, leaves its wait phase in this step
LeavesWait(t) ==
    /\ t \in 1..Len(tasks)
    /\ tasks[t].pc \in WaitPcs
    /\ ~tasks[t].must_cancel
    /\ tasks'[t].pc \notin WaitPcs

\* every invocation of generate_response puts one 'patient' utterance in
\* the ledger, and one user entry in the conversation unless it was given
\* no remote text
InvocationsWithoutText == NumPatient - Len(TextsGenerated)

-----------------------------------------------------------------------------
\* C37: the greeting's offset, once taken, is 0, and a ConversationManager
\* is given no inbound frame while the handler that created it awaits its
\* start(), that is, from its creation to the end of its greeting.
C37_GreetingAtOffsetZero ==
    \A m \in 1..Len(managers) :
       /\ managers[m].greeting_at \in {-1, 0}
       /\ handlers[managers[m].owner].pc = "starting"
             => managers[m].frames_from = <<>>

\* C37, the part that holds: with one connection, no inbound audio is
\* recorded while the handler awaits start(), and a segment recorded by
\* start() has offset 0.
C37_GreetingAtZeroAlone ==
    [][ /\ handler_pc' = "starting" => inbound_audio' = <<>>
        /\ (start_co.pc \in SpeakPcs /\ start_co'.pc = "done"
              /\ Len(outbound_segments') > Len(outbound_segments))
             => Last(outbound_segments').byte_position = 0
      ]_vars

\* C37, the failing case: the second connection's greeting took an offset
\* after a frame of the first connection, still open, had been given to its
\* manager during start()
C37_GreetingAfterForeignFrame ==
    /\ Len(managers) = 2
    /\ managers[2].owner = 2
    /\ handlers[2].pc = "starting"
    /\ managers[2].frames_from = <<1>>
    /\ managers[2].greeting_at = 1

-----------------------------------------------------------------------------
RECURSIVE ConcatChunks(_)
ConcatChunks(chunks) ==
    IF chunks = <<>> THEN <<>>
    ELSE chunks[1] \o ConcatChunks(Tail(chunks))

\* C38: every chunk the audio sender is given is non-empty and at most
\* CHUNK_SIZE bytes, every chunk before the newest is exactly CHUNK_SIZE
\* bytes, the sender is given one more chunk per step at most and never
\* loses one, the chunks given so far concatenate to the beginning of the
\* payload, and when the loop has ended they concatenate to the whole
\* payload, the last being the only one that may be short; an empty payload
\* gives no call.
C38_ChunksPartitionPayload ==
    [][ /\ Len(sent_chunks') <= Len(sent_chunks) + 1
        /\ SubSeq(sent_chunks', 1, Len(sent_chunks)) = sent_chunks
        /\ \A k \in 1..Len(sent_chunks') :
              /\ sent_chunks'[k] # <<>>
              /\ Len(sent_chunks'[k]) <= CHUNK_SIZE
              /\ k < Len(sent_chunks') => Len(sent_chunks'[k]) = CHUNK_SIZE
        /\ start_co'.pc = "pace"
              => /\ sent_chunks' # <<>>
                 /\ ConcatChunks(sent_chunks')
                      = SubSeq(start_co'.pcm_audio, 1,
                               Len(ConcatChunks(sent_chunks')))
        /\ outbound_segments' # <<>>
              => /\ ConcatChunks(sent_chunks') = outbound_segments'[1].audio
                 /\ outbound_segments'[1].audio = <<>> => sent_chunks' = <<>>
      ]_vars

\* C38 witness: a payload of two whole chunks and one byte has been sent as
\* three chunks, the last of one byte
C38_Witness ==
    /\ outbound_segments # <<>>
    /\ Len(outbound_segments[1].audio) = 2 * CHUNK_SIZE + 1
    /\ Len(sent_chunks) = 3
    /\ Len(sent_chunks[3]) = 1
    /\ sent_chunks[2][1] = (CHUNK_SIZE + 1) % 256

\* C38, the empty payload: the segment was recorded and the sender never
\* called
C38_EmptyPayloadReached ==
    /\ outbound_segments # <<>>
    /\ outbound_segments[1].audio = <<>>
    /\ sent_chunks = <<>>

=============================================================================
